---- MODULE Spec2Model ----
(***************************************************************************)
(* The scheduling engine of src/lib/schedulingAlgorithms.ts: the four      *)
(* engine functions calculateSRTN / calculateRoundRobin in their overhead  *)
(* variant (lines 67-493) and their basic variant (lines 529-803).         *)
(*                                                                         *)
(* One run of one engine function is one behaviour.  Init is the state     *)
(* right before the while loop is entered for the first time; every loop   *)
(* iteration is two steps: the admission/assignment/next-event phase       *)
(* (pc = "loop" -> "process") and the process phase that advances the      *)
(* clock (pc = "process" -> "loop").  Between the two the state shows the  *)
(* interval [currentTime, nextEventTime) the iteration is about to run.    *)
(*                                                                         *)
(* Time is counted in whole units, so the code's test                      *)
(* remainingTime <= 0.00001 is remainingTime <= 0.  A Job object is        *)
(* modelled by its id; the arrays of the code hold references to the same  *)
(* Job objects, so the mutable field remainingTime is one function of id.  *)
(***************************************************************************)
EXTENDS Integers, Sequences, FiniteSets, TLC

\* Bounds of the inputs explored.
MaxJobs == 2
MaxArrival == 1
MaxBurst == 3
MaxCpus == 2
MaxQuantum == 2
MaxOverhead == 1

\* cpuJobs[i] = null
NoJob == 0
\* jobStartTimes[id] = null
NoTime == -1
\* jobId of an overhead segment ("OVERHEAD")
OVERHEAD == -2
\* let nextEventTime = Infinity
Infinity == 1000000
\* job.remainingTime <= 0.00001, in whole time units
Epsilon == 0

Algorithms == {"SRTN_OV", "RR_OV", "SRTN", "RR"}

VARIABLES
    algorithm,            \* which of the four engine functions runs
    jobs,                 \* the caller's job list, by id: arrivalTime, burstTime
    cpuCount,
    timeQuantum,          \* 0 for SRTN, which has no such parameter
    switchingOverhead,    \* 0 in the basic variants, which have no such parameter
    remainingJobs,        \* not yet arrived, sorted by sortByArrivalTime
    readyQueue,           \* readyQueue of Round Robin, runningJobs of SRTN
    remainingTime,        \* job.remainingTime of the run's copies
    completedJobs,
    cpuTimeSlots,
    queueSnapshots,
    currentTime,
    nextEventTime,
    jobResults,
    jobStartTimes,
    cpuJobs,
    cpuTimeRemaining,
    cpuOverheadEndTimes,
    pc,                   \* "loop", "process", "done"
    exitedBy,             \* "none", "condition" (while test false), "break"
    cpuAcceptTime,        \* history: when cpuJobs[i] was last assigned
    enqLog,               \* history: every push onto readyQueue, in order
    deqLog,               \* history: every shift from readyQueue, in order
    callerRemainingTime,  \* remainingTime of the Job objects the caller passed
    run,                  \* 1 in the first call, 2 in a repeated call
    firstResult,          \* what the first call returned, once called again
    page                  \* the JobScheduler component's own state, when it
                          \* is the caller: variant, activeAlgorithm,
                          \* scheduleResult, the last toast

vars == <<algorithm, jobs, cpuCount, timeQuantum, switchingOverhead,
          remainingJobs, readyQueue, remainingTime, completedJobs,
          cpuTimeSlots, queueSnapshots, currentTime, nextEventTime,
          jobResults, jobStartTimes, cpuJobs, cpuTimeRemaining,
          cpuOverheadEndTimes, pc, exitedBy, cpuAcceptTime, enqLog, deqLog,
          callerRemainingTime, run, firstResult, page>>

inputs == <<algorithm, jobs, cpuCount, timeQuantum, switchingOverhead>>

\* the caller's side of a repeated call
calls == <<run, firstResult, page>>

\* the "" a number field of the component (src/unnamed/part_003, variants 2
\* and 3) holds while nothing is typed
Blank == -2

\* Number(v) at the call sites of the component: Number("") is 0
Number(v) == IF v = Blank THEN 0 ELSE v

\* the timeQuantum argument of the running call
quantum == Number(timeQuantum)

\* a call with a quantum that is not positive never leaves the while loop;
\* it is followed until it has recorded this many time slots
MaxStuckSlots == 2

FollowedFurther == quantum > 0 \/ Len(cpuTimeSlots) < MaxStuckSlots

JobIds == DOMAIN jobs
Cpus == 0 .. (cpuCount - 1)

Min2(a, b) == IF a <= b THEN a ELSE b

MinOf(S) == CHOOSE x \in S : \A y \in S : x <= y

Occurrences(seq, x) == Cardinality({k \in 1..Len(seq) : seq[k] = x})

\* Array.prototype.sort: a stable sort; cmp[a, b] is the comparator's result.
StableSort(s, cmp) ==
    LET n == Len(s)
        before(j, i) == \/ cmp[s[j], s[i]] < 0
                        \/ (cmp[s[j], s[i]] = 0 /\ j < i)
        rank(i) == Cardinality({j \in 1..n : before(j, i)})
    IN  [k \in 1..n |-> s[CHOOSE i \in 1..n : rank(i) = k - 1]]

\* a.id.localeCompare(b.id)
localeCompare(a, b) == IF a < b THEN -1 ELSE IF a > b THEN 1 ELSE 0

sortByArrivalTime(js, a, b) ==
    IF js[a].arrivalTime # js[b].arrivalTime
    THEN js[a].arrivalTime - js[b].arrivalTime
    ELSE localeCompare(a, b)

sortByRemainingTime(js, rem, a, b) ==
    IF rem[a] # rem[b]
    THEN rem[a] - rem[b]
    ELSE js[a].arrivalTime - js[b].arrivalTime

\* takeQueueSnapshot: a deep copy of the queue at this instant
takeQueueSnapshot(time, queue, rem) ==
    [time |-> time,
     readyQueue |-> [k \in 1..Len(queue) |->
                        [id |-> queue[k], remainingTime |-> rem[queue[k]]]]]

\* for (...) { if (arrivalTime <= currentTime) push else break }
RECURSIVE newlyArrivedJobs(_, _, _)
newlyArrivedJobs(rj, t, i) ==
    IF i <= Len(rj) /\ jobs[rj[i]].arrivalTime <= t
    THEN <<rj[i]>> \o newlyArrivedJobs(rj, t, i + 1)
    ELSE <<>>

\* mutant: the filter keeps the jobs that arrive at currentTime
notYetArrivedInclusive(rj, t) ==
    LET later(id) == jobs[id].arrivalTime >= t IN SelectSeq(rj, later)

\* remainingJobs.filter(job => job.arrivalTime > currentTime)
notYetArrived(rj, t) ==
    LET later(id) == jobs[id].arrivalTime > t IN SelectSeq(rj, later)

OverheadSlot(i, from, to) ==
    [cpuId |-> i, jobId |-> OVERHEAD, startTime |-> from, endTime |-> to,
     isOverhead |-> TRUE]

JobSlot(i, id, from, to) ==
    [cpuId |-> i, jobId |-> id, startTime |-> from, endTime |-> to,
     isOverhead |-> FALSE]

\* mutant: turnaround measured from the first start instead of the arrival
JobResultSinceStart(s, id, end) ==
    [startTime |-> s.st[id], endTime |-> end,
     turnaroundTime |-> end - s.st[id]]

JobResult(s, id, end) ==
    [startTime |-> s.st[id], endTime |-> end,
     turnaroundTime |-> end - jobs[id].arrivalTime]

\* The part of the state the per-CPU loops of one iteration read and write.
LoopState ==
    [q |-> readyQueue, cj |-> cpuJobs, oh |-> cpuOverheadEndTimes,
     tr |-> cpuTimeRemaining, slots |-> cpuTimeSlots, st |-> jobStartTimes,
     rem |-> remainingTime, done |-> completedJobs, res |-> jobResults,
     acc |-> cpuAcceptTime, enq |-> enqLog, deq |-> deqLog]

\* mutant: unshift instead of push
PushFront(s, ids) == [s EXCEPT !.q = ids \o @, !.enq = @ \o ids]

\* readyQueue.push(...ids)
Push(s, ids) == [s EXCEPT !.q = @ \o ids, !.enq = @ \o ids]

\* mutant: the CPU takes the head of the queue, which stays queued
DispatchWithoutShift(s, i, t, slice) ==
    LET id == Head(s.q)
    IN  [s EXCEPT !.cj[i] = id,
                  !.deq = Append(@, id),
                  !.tr[i] = slice,
                  !.acc[i] = t,
                  !.st[id] = IF @ = NoTime THEN t ELSE @]

\* cpuJobs[i] = readyQueue.shift(); record the first start time
Dispatch(s, i, t, slice) ==
    LET id == Head(s.q)
    IN  [s EXCEPT !.cj[i] = id,
                  !.q = Tail(@),
                  !.deq = Append(@, id),
                  !.tr[i] = slice,
                  !.acc[i] = t,
                  !.st[id] = IF @ = NoTime THEN t ELSE @]

\* mutant: the overhead after a completion starts at currentTime
StartOverheadAtCurrentTime(s, i, from) ==
    [s EXCEPT !.oh[i] = currentTime + switchingOverhead,
              !.slots = Append(@, OverheadSlot(i, currentTime,
                                               currentTime + switchingOverhead))]

\* cpuOverheadEndTimes[i] = from + switchingOverhead; push the OVERHEAD slot
StartOverhead(s, i, from) ==
    [s EXCEPT !.oh[i] = from + switchingOverhead,
              !.slots = Append(@, OverheadSlot(i, from, from + switchingOverhead))]

\* completedJobs.push(job); jobResults[job.id] = {...}; cpuJobs[i] = null
Complete(s, i, id, end) ==
    [s EXCEPT !.done = Append(@, id),
              !.res = (id :> JobResult(s, id, end)) @@ @,
              !.cj[i] = NoJob]

\* mutant: no copy is made, the run's Job objects are the caller's
SharedWithCaller(own, written) == written

\* deepCopyJobs (JSON.parse(JSON.stringify(jobs))): the run's Job objects
\* are new objects, so what the run writes to them does not reach the
\* caller's
deepCopyJobs(own, written) == own

Install(s) ==
    /\ callerRemainingTime' = deepCopyJobs(callerRemainingTime, s.rem)
    /\ readyQueue' = s.q
    /\ cpuJobs' = s.cj
    /\ cpuOverheadEndTimes' = s.oh
    /\ cpuTimeRemaining' = s.tr
    /\ cpuTimeSlots' = s.slots
    /\ jobStartTimes' = s.st
    /\ remainingTime' = s.rem
    /\ completedJobs' = s.done
    /\ jobResults' = s.res
    /\ cpuAcceptTime' = s.acc
    /\ enqLog' = s.enq
    /\ deqLog' = s.deq

(***************************************************************************)
(* Round Robin, basic variant (lines 662-803)                              *)
(***************************************************************************)

RRAssignCpu(s, i, t) ==
    IF s.cj[i] = NoJob /\ Len(s.q) > 0
    THEN Dispatch(s, i, t, quantum)
    ELSE s

RECURSIVE RRAssignLoop(_, _, _)
RRAssignLoop(s, i, t) ==
    IF i >= cpuCount THEN s ELSE RRAssignLoop(RRAssignCpu(s, i, t), i + 1, t)

\* mutant: only the quantum expiry of a running job is an event, not its
\* completion
RRNextEventTimeQuantumOnly(s, rj, t) ==
    LET arrival == IF Len(rj) > 0 THEN jobs[rj[1]].arrivalTime ELSE Infinity
        events == {t + s.tr[i] : i \in {c \in Cpus : s.cj[c] # NoJob}}
    IN  MinOf({arrival} \cup events)

RRNextEventTime(s, rj, t) ==
    LET arrival == IF Len(rj) > 0 THEN jobs[rj[1]].arrivalTime ELSE Infinity
        events == {t + Min2(s.tr[i], s.rem[s.cj[i]]) : i \in {c \in Cpus : s.cj[c] # NoJob}}
        next == MinOf({arrival} \cup events)
    IN  IF next = Infinity /\ Len(rj) > 0 THEN jobs[rj[1]].arrivalTime ELSE next

\* mutant: a running job goes back to the queue whenever a job arrives
RRProcessCpuPreemptive(s, i, t, next) ==
    IF s.cj[i] # NoJob
    THEN LET job == s.cj[i]
             timeSpent == next - t
             s1 == [s EXCEPT !.slots = Append(@, JobSlot(i, job, t, next)),
                             !.rem[job] = @ - timeSpent,
                             !.tr[i] = @ - timeSpent]
         IN  IF s1.rem[job] <= Epsilon
             THEN Complete(s1, i, job, next)
             ELSE IF \/ s1.tr[i] <= Epsilon
                     \/ (Len(remainingJobs) > 0 /\ jobs[remainingJobs[1]].arrivalTime = next)
                  THEN [Push(s1, <<job>>) EXCEPT !.cj[i] = NoJob]
                  ELSE s1
    ELSE s

\* mutant: a job whose quantum is used up keeps its CPU, with a new
\* quantum, when a job arrives at that instant
RRProcessCpuKeptAtArrival(s, i, t, next) ==
    IF s.cj[i] # NoJob
    THEN LET job == s.cj[i]
             timeSpent == next - t
             s1 == [s EXCEPT !.slots = Append(@, JobSlot(i, job, t, next)),
                             !.rem[job] = @ - timeSpent,
                             !.tr[i] = @ - timeSpent]
         IN  IF s1.rem[job] <= Epsilon
             THEN Complete(s1, i, job, next)
             ELSE IF s1.tr[i] <= Epsilon
                  THEN IF Len(remainingJobs) > 0 /\ jobs[remainingJobs[1]].arrivalTime = next
                       THEN [s1 EXCEPT !.tr[i] = quantum, !.acc[i] = next]
                       ELSE [Push(s1, <<job>>) EXCEPT !.cj[i] = NoJob]
                  ELSE s1
    ELSE s

RRProcessCpu(s, i, t, next) ==
    IF s.cj[i] # NoJob
    THEN LET job == s.cj[i]
             timeSpent == next - t
             s1 == [s EXCEPT !.slots = Append(@, JobSlot(i, job, t, next)),
                             !.rem[job] = @ - timeSpent,
                             !.tr[i] = @ - timeSpent]
         IN  IF s1.rem[job] <= Epsilon
             THEN Complete(s1, i, job, next)
             ELSE IF s1.tr[i] <= Epsilon
                  THEN [Push(s1, <<job>>) EXCEPT !.cj[i] = NoJob]
                  ELSE s1
    ELSE s

RECURSIVE RRProcessLoop(_, _, _, _)
RRProcessLoop(s, i, t, next) ==
    IF i >= cpuCount THEN s
    ELSE RRProcessLoop(RRProcessCpu(s, i, t, next), i + 1, t, next)

\* mutant: the while test forgets the jobs still on a CPU
RRLoopConditionNoCpus ==
    \/ Len(remainingJobs) > 0
    \/ Len(readyQueue) > 0

\* while (remainingJobs.length > 0 || readyQueue.length > 0 || cpuJobs.some(...))
RRLoopCondition ==
    \/ Len(remainingJobs) > 0
    \/ Len(readyQueue) > 0
    \/ \E i \in Cpus : cpuJobs[i] # NoJob

RRAssign ==
    /\ algorithm = "RR"
    /\ pc = "loop"
    /\ RRLoopCondition
    /\ FollowedFurther
    /\ LET arrived == newlyArrivedJobs(remainingJobs, currentTime, 1)
           rj == notYetArrived(remainingJobs, currentTime)
       IN  \E s \in {RRAssignLoop(Push(LoopState, arrived), 0, currentTime)} :
           LET next == RRNextEventTime(s, rj, currentTime)
           IN  /\ remainingJobs' = rj
               /\ Install(s)
               /\ nextEventTime' = next
               /\ IF next = Infinity
                  THEN pc' = "done" /\ exitedBy' = "break"
                  ELSE pc' = "process" /\ exitedBy' = exitedBy
    /\ UNCHANGED <<inputs, calls, currentTime, queueSnapshots>>

\* mutant: the process phase has no effect, time does not advance
RRProcessStuck ==
    /\ algorithm = "RR"
    /\ pc = "process"
    /\ pc' = "loop"
    /\ UNCHANGED <<inputs, calls, remainingJobs, readyQueue, remainingTime,
                   completedJobs, cpuTimeSlots, queueSnapshots, currentTime,
                   nextEventTime, jobResults, jobStartTimes, cpuJobs,
                   cpuTimeRemaining, cpuOverheadEndTimes, exitedBy,
                   cpuAcceptTime, enqLog, deqLog, callerRemainingTime>>

RRProcess ==
    /\ algorithm = "RR"
    /\ pc = "process"
    /\ \E s \in {RRProcessLoop(LoopState, 0, currentTime, nextEventTime)} :
          Install(s)
    /\ currentTime' = nextEventTime
    /\ pc' = "loop"
    /\ UNCHANGED <<inputs, calls, remainingJobs, nextEventTime, queueSnapshots, exitedBy>>

(***************************************************************************)
(* Round Robin, overhead variant (lines 277-493)                           *)
(***************************************************************************)

\* mutant: the slice is the whole quantum, whatever the job has left
SliceWholeQuantum(s) == quantum

\* Math.min(timeQuantum, cpuJobs[i].remainingTime)
Slice(s) == Min2(quantum, s.rem[Head(s.q)])

\* mutant: the assignment does not look at cpuOverheadEndTimes
RROvAssignCpuDuringOverhead(s, i, t) ==
    IF s.cj[i] = NoJob /\ Len(s.q) > 0
    THEN Dispatch(s, i, t, Slice(s))
    ELSE s

RROvAssignCpu(s, i, t) ==
    IF s.oh[i] > t THEN s
    ELSE IF s.cj[i] = NoJob /\ Len(s.q) > 0
         THEN Dispatch(s, i, t, Slice(s))
         ELSE s

RECURSIVE RROvAssignLoop(_, _, _)
RROvAssignLoop(s, i, t) ==
    IF i >= cpuCount THEN s ELSE RROvAssignLoop(RROvAssignCpu(s, i, t), i + 1, t)

RROvNextEventTime(s, rj, t) ==
    LET arrival == IF Len(rj) > 0 THEN jobs[rj[1]].arrivalTime ELSE Infinity
        overheadEnds == {s.oh[i] : i \in {c \in Cpus : s.oh[c] > t}}
        events == {t + s.tr[i] :
                     i \in {c \in Cpus : s.cj[c] # NoJob /\ s.oh[c] <= t /\ s.tr[c] > 0}}
        next == MinOf({arrival} \cup overheadEnds \cup events)
    IN  IF next = Infinity /\ Len(rj) > 0 THEN jobs[rj[1]].arrivalTime ELSE next

\* mutant: a quantum expiry starts an overhead period only if a job waits,
\* as a completion does
RROvProcessCpuOverheadIfWaiting(s, i, t, next) ==
    IF s.cj[i] # NoJob /\ s.oh[i] <= t
    THEN LET job == s.cj[i]
             timeSpent == next - t
             s1 == [s EXCEPT !.slots = Append(@, JobSlot(i, job, t, next)),
                             !.rem[job] = @ - timeSpent,
                             !.tr[i] = @ - timeSpent]
         IN  IF s1.rem[job] <= Epsilon
             THEN LET s2 == Complete(s1, i, job, next)
                  IN  IF Len(s2.q) > 0
                      THEN IF switchingOverhead > 0
                           THEN StartOverhead(s2, i, next)
                           ELSE Dispatch(s2, i, next, Slice(s2))
                      ELSE s2
             ELSE IF s1.tr[i] <= Epsilon
                  THEN LET s2 == IF switchingOverhead > 0 /\ Len(s1.q) > 0
                                 THEN StartOverhead(s1, i, next)
                                 ELSE s1
                           s3 == [Push(s2, <<job>>) EXCEPT !.cj[i] = NoJob]
                       IN  IF switchingOverhead <= 0 /\ Len(s3.q) > 0
                           THEN Dispatch(s3, i, next, Slice(s3))
                           ELSE s3
                  ELSE s1
    ELSE s

RROvProcessCpu(s, i, t, next) ==
    IF s.cj[i] # NoJob /\ s.oh[i] <= t
    THEN LET job == s.cj[i]
             timeSpent == next - t
             s1 == [s EXCEPT !.slots = Append(@, JobSlot(i, job, t, next)),
                             !.rem[job] = @ - timeSpent,
                             !.tr[i] = @ - timeSpent]
         IN  IF s1.rem[job] <= Epsilon
             THEN LET s2 == Complete(s1, i, job, next)
                  IN  IF Len(s2.q) > 0
                      THEN IF switchingOverhead > 0
                           THEN StartOverhead(s2, i, next)
                           ELSE Dispatch(s2, i, next, Slice(s2))
                      ELSE s2
             ELSE IF s1.tr[i] <= Epsilon
                  THEN LET s2 == IF switchingOverhead > 0
                                 THEN StartOverhead(s1, i, next)
                                 ELSE s1
                           s3 == [Push(s2, <<job>>) EXCEPT !.cj[i] = NoJob]
                       IN  IF switchingOverhead <= 0 /\ Len(s3.q) > 0
                           THEN Dispatch(s3, i, next, Slice(s3))
                           ELSE s3
                  ELSE s1
    ELSE s

RECURSIVE RROvProcessLoop(_, _, _, _)
RROvProcessLoop(s, i, t, next) ==
    IF i >= cpuCount THEN s
    ELSE RROvProcessLoop(RROvProcessCpu(s, i, t, next), i + 1, t, next)

\* if (newlyArrivedJobs.length > 0 || queue.length > 0) queueSnapshots.push(...)
SnapshotAfterAdmission(arrived, queue, t) ==
    IF Len(arrived) > 0 \/ Len(queue) > 0
    THEN Append(queueSnapshots, takeQueueSnapshot(t, queue, remainingTime))
    ELSE queueSnapshots

RROvAssign ==
    /\ algorithm = "RR_OV"
    /\ pc = "loop"
    /\ RRLoopCondition
    /\ FollowedFurther
    /\ LET arrived == newlyArrivedJobs(remainingJobs, currentTime, 1)
           rj == notYetArrived(remainingJobs, currentTime)
           s0 == Push(LoopState, arrived)
       IN  \E s \in {RROvAssignLoop(s0, 0, currentTime)} :
           LET next == RROvNextEventTime(s, rj, currentTime)
           IN  /\ remainingJobs' = rj
               /\ queueSnapshots' = SnapshotAfterAdmission(arrived, s0.q, currentTime)
               /\ Install(s)
               /\ nextEventTime' = next
               /\ IF next = Infinity
                  THEN pc' = "done" /\ exitedBy' = "break"
                  ELSE pc' = "process" /\ exitedBy' = exitedBy
    /\ UNCHANGED <<inputs, calls, currentTime>>

RROvProcess ==
    /\ algorithm = "RR_OV"
    /\ pc = "process"
    /\ \E s \in {RROvProcessLoop(LoopState, 0, currentTime, nextEventTime)} :
          Install(s)
    /\ currentTime' = nextEventTime
    /\ pc' = "loop"
    /\ UNCHANGED <<inputs, calls, remainingJobs, nextEventTime, queueSnapshots, exitedBy>>

(***************************************************************************)
(* SRTN, basic variant (lines 529-660)                                     *)
(***************************************************************************)

\* runningJobs.sort(sortByRemainingTime)
\* mutant: the sort is left out, the queue stays in arrival order
KeepQueueOrder(s) == s

SortQueue(s) ==
    LET byRemaining == [a \in JobIds, b \in JobIds |->
                           sortByRemainingTime(jobs, s.rem, a, b)]
    IN  [s EXCEPT !.q = StableSort(@, byRemaining)]

SRTNAssignCpu(s, i, t) ==
    IF s.cj[i] = NoJob /\ Len(s.q) > 0
    THEN Dispatch(s, i, t, 0)
    ELSE s

RECURSIVE SRTNAssignLoop(_, _, _)
SRTNAssignLoop(s, i, t) ==
    IF i >= cpuCount THEN s ELSE SRTNAssignLoop(SRTNAssignCpu(s, i, t), i + 1, t)

\* mutant: Math.max instead of Math.min over the running jobs' completions
SRTNNextEventTimeLatest(s, rj, t) ==
    LET arrival == IF Len(rj) > 0 THEN jobs[rj[1]].arrivalTime ELSE Infinity
        events == {t + s.rem[s.cj[i]] : i \in {c \in Cpus : s.cj[c] # NoJob}}
    IN  IF events = {} THEN arrival
        ELSE CHOOSE x \in events : \A y \in events : y <= x

SRTNNextEventTime(s, rj, t) ==
    LET arrival == IF Len(rj) > 0 THEN jobs[rj[1]].arrivalTime ELSE Infinity
        events == {t + s.rem[s.cj[i]] : i \in {c \in Cpus : s.cj[c] # NoJob}}
        next == MinOf({arrival} \cup events)
    IN  IF next = Infinity /\ Len(rj) > 0 THEN jobs[rj[1]].arrivalTime ELSE next

\* mutant: the interval is deducted from the job without a slot for it
SRTNProcessCpuUnrecorded(s, i, rj, t, next) ==
    IF s.cj[i] # NoJob
    THEN LET job == s.cj[i]
             timeSpent == next - t
             s1 == [s EXCEPT !.rem[job] = @ - timeSpent]
         IN  IF s1.rem[job] <= Epsilon
             THEN Complete(s1, i, job, next)
             ELSE IF Len(rj) > 0 /\ jobs[rj[1]].arrivalTime = next
                  THEN [Push(s1, <<job>>) EXCEPT !.cj[i] = NoJob]
                  ELSE s1
    ELSE s

SRTNProcessCpu(s, i, rj, t, next) ==
    IF s.cj[i] # NoJob
    THEN LET job == s.cj[i]
             timeSpent == next - t
             s1 == [s EXCEPT !.slots = Append(@, JobSlot(i, job, t, next)),
                             !.rem[job] = @ - timeSpent]
         IN  IF s1.rem[job] <= Epsilon
             THEN Complete(s1, i, job, next)
             ELSE IF Len(rj) > 0 /\ jobs[rj[1]].arrivalTime = next
                  THEN [Push(s1, <<job>>) EXCEPT !.cj[i] = NoJob]
                  ELSE s1
    ELSE s

RECURSIVE SRTNProcessLoop(_, _, _, _, _)
SRTNProcessLoop(s, i, rj, t, next) ==
    IF i >= cpuCount THEN s
    ELSE SRTNProcessLoop(SRTNProcessCpu(s, i, rj, t, next), i + 1, rj, t, next)

\* while (remainingJobs.length > 0 || runningJobs.length > 0)
SRTNLoopCondition ==
    \/ Len(remainingJobs) > 0
    \/ Len(readyQueue) > 0

SRTNAssign ==
    /\ algorithm = "SRTN"
    /\ pc = "loop"
    /\ SRTNLoopCondition
    /\ LET arrived == newlyArrivedJobs(remainingJobs, currentTime, 1)
           rj == notYetArrived(remainingJobs, currentTime)
           s0 == SortQueue(Push(LoopState, arrived))
       IN  \E s \in {SRTNAssignLoop(s0, 0, currentTime)} :
           LET next == SRTNNextEventTime(s, rj, currentTime)
           IN  /\ remainingJobs' = rj
               /\ Install(s)
               /\ nextEventTime' = next
               /\ IF next = Infinity
                  THEN pc' = "done" /\ exitedBy' = "break"
                  ELSE pc' = "process" /\ exitedBy' = exitedBy
    /\ UNCHANGED <<inputs, calls, currentTime, queueSnapshots>>

SRTNProcess ==
    /\ algorithm = "SRTN"
    /\ pc = "process"
    /\ \E s \in {SRTNProcessLoop(LoopState, 0, remainingJobs, currentTime, nextEventTime)} :
          Install(s)
    /\ currentTime' = nextEventTime
    /\ pc' = "loop"
    /\ UNCHANGED <<inputs, calls, remainingJobs, nextEventTime, queueSnapshots, exitedBy>>

(***************************************************************************)
(* SRTN, overhead variant (lines 67-275)                                   *)
(***************************************************************************)

\* mutant: without overhead the preempted CPU takes the head of the queue
\* at once
SRTNOvAssignCpuTakesOver(s, i, t) ==
    IF s.oh[i] > t THEN s
    ELSE IF \/ s.cj[i] = NoJob
            \/ (Len(s.q) > 0 /\ s.rem[Head(s.q)] < s.rem[s.cj[i]])
         THEN IF s.cj[i] # NoJob
              THEN LET s1 == Push(s, <<s.cj[i]>>)
                   IN  IF switchingOverhead > 0
                       THEN [StartOverhead(s1, i, t) EXCEPT !.cj[i] = NoJob]
                       ELSE Dispatch(s1, i, t, 0)
              ELSE IF Len(s.q) > 0 /\ s.oh[i] <= t
                   THEN Dispatch(s, i, t, 0)
                   ELSE s
         ELSE s

SRTNOvAssignCpu(s, i, t) ==
    IF s.oh[i] > t THEN s
    ELSE IF \/ s.cj[i] = NoJob
            \/ (Len(s.q) > 0 /\ s.rem[Head(s.q)] < s.rem[s.cj[i]])
         THEN IF s.cj[i] # NoJob
              THEN \* preempt: requeue, overhead, free the CPU, continue
                   LET s1 == Push(s, <<s.cj[i]>>)
                       s2 == IF switchingOverhead > 0
                             THEN StartOverhead(s1, i, t)
                             ELSE s1
                   IN  [s2 EXCEPT !.cj[i] = NoJob]
              ELSE IF Len(s.q) > 0 /\ s.oh[i] <= t
                   THEN Dispatch(s, i, t, 0)
                   ELSE s
         ELSE s

RECURSIVE SRTNOvAssignLoop(_, _, _)
SRTNOvAssignLoop(s, i, t) ==
    IF i >= cpuCount THEN s
    ELSE SRTNOvAssignLoop(SRTNOvAssignCpu(s, i, t), i + 1, t)

SRTNOvNextEventTime(s, rj, t) ==
    LET arrival == IF Len(rj) > 0 THEN jobs[rj[1]].arrivalTime ELSE Infinity
        overheadEnds == {s.oh[i] : i \in {c \in Cpus : s.oh[c] > t}}
        events == {t + s.rem[s.cj[i]] :
                     i \in {c \in Cpus : s.cj[c] # NoJob /\ s.oh[c] <= t}}
        next == MinOf({arrival} \cup overheadEnds \cup events)
    IN  IF next = Infinity /\ Len(rj) > 0 THEN jobs[rj[1]].arrivalTime ELSE next

SRTNOvProcessCpu(s, i, t, next) ==
    IF s.cj[i] # NoJob /\ s.oh[i] <= t
    THEN LET job == s.cj[i]
             timeSpent == next - t
             s1 == [s EXCEPT !.slots = Append(@, JobSlot(i, job, t, next)),
                             !.rem[job] = @ - timeSpent]
         IN  IF s1.rem[job] <= Epsilon
             THEN LET s2 == Complete(s1, i, job, next)
                  IN  IF Len(s2.q) > 0
                      THEN IF switchingOverhead > 0
                           THEN StartOverhead(s2, i, next)
                           ELSE Dispatch(s2, i, next, 0)
                      ELSE s2
             ELSE s1
    ELSE s

RECURSIVE SRTNOvProcessLoop(_, _, _, _)
SRTNOvProcessLoop(s, i, t, next) ==
    IF i >= cpuCount THEN s
    ELSE SRTNOvProcessLoop(SRTNOvProcessCpu(s, i, t, next), i + 1, t, next)

\* every arrangement of the queue the comparator accepts as sorted
SortedArrangements(s) ==
    LET n == Len(s.q)
        ids == {s.q[k] : k \in 1..n}
    IN  {q \in [1..n -> ids] :
            /\ \A id \in ids : Occurrences(q, id) = Occurrences(s.q, id)
            /\ \A k \in 1..(n - 1) :
                  sortByRemainingTime(jobs, s.rem, q[k], q[k + 1]) <= 0}

\* mutant: runningJobs.sort is not stable, jobs that compare equal come out
\* in any order
SRTNOvAssignUnstableSort ==
    /\ algorithm = "SRTN_OV"
    /\ pc = "loop"
    /\ RRLoopCondition
    /\ LET arrived == newlyArrivedJobs(remainingJobs, currentTime, 1)
           rj == notYetArrived(remainingJobs, currentTime)
           pushed == Push(LoopState, arrived)
       IN  \E q \in SortedArrangements(pushed) :
           LET s0 == [pushed EXCEPT !.q = q]
           IN  \E s \in {SRTNOvAssignLoop(s0, 0, currentTime)} :
               LET next == SRTNOvNextEventTime(s, rj, currentTime)
               IN  /\ remainingJobs' = rj
                   /\ queueSnapshots' = SnapshotAfterAdmission(arrived, s0.q, currentTime)
                   /\ Install(s)
                   /\ nextEventTime' = next
                   /\ IF next = Infinity
                      THEN pc' = "done" /\ exitedBy' = "break"
                      ELSE pc' = "process" /\ exitedBy' = exitedBy
    /\ UNCHANGED <<inputs, calls, currentTime>>

SRTNOvAssign ==
    /\ algorithm = "SRTN_OV"
    /\ pc = "loop"
    /\ RRLoopCondition
    /\ LET arrived == newlyArrivedJobs(remainingJobs, currentTime, 1)
           rj == notYetArrived(remainingJobs, currentTime)
           s0 == SortQueue(Push(LoopState, arrived))
       IN  \E s \in {SRTNOvAssignLoop(s0, 0, currentTime)} :
           LET next == SRTNOvNextEventTime(s, rj, currentTime)
           IN  /\ remainingJobs' = rj
               /\ queueSnapshots' = SnapshotAfterAdmission(arrived, s0.q, currentTime)
               /\ Install(s)
               /\ nextEventTime' = next
               /\ IF next = Infinity
                  THEN pc' = "done" /\ exitedBy' = "break"
                  ELSE pc' = "process" /\ exitedBy' = exitedBy
    /\ UNCHANGED <<inputs, calls, currentTime>>

SRTNOvProcess ==
    /\ algorithm = "SRTN_OV"
    /\ pc = "process"
    /\ \E s \in {SRTNOvProcessLoop(LoopState, 0, currentTime, nextEventTime)} :
          Install(s)
    /\ currentTime' = nextEventTime
    /\ pc' = "loop"
    /\ UNCHANGED <<inputs, calls, remainingJobs, nextEventTime, queueSnapshots, exitedBy>>

(***************************************************************************)
(* The while test is false: the function returns.                          *)
(***************************************************************************)

LoopCondition ==
    IF algorithm = "SRTN" THEN SRTNLoopCondition ELSE RRLoopCondition

Return ==
    /\ pc = "loop"
    /\ ~LoopCondition
    /\ pc' = "done"
    /\ exitedBy' = "condition"
    /\ UNCHANGED <<inputs, calls, remainingJobs, readyQueue, remainingTime,
                   completedJobs, cpuTimeSlots, queueSnapshots, currentTime,
                   nextEventTime, jobResults, jobStartTimes, cpuJobs,
                   cpuTimeRemaining, cpuOverheadEndTimes, cpuAcceptTime,
                   enqLog, deqLog, callerRemainingTime>>

(***************************************************************************)
(* The value an engine function returns (lines 258-274, 476-492, 652-659,  *)
(* 795-802).  A quotient is kept exact, as numerator and denominator.      *)
(***************************************************************************)

Quotient(n, d) == [num |-> n, den |-> d]

RECURSIVE SumTurnaround(_, _)
SumTurnaround(res, ids) ==
    IF ids = {} THEN 0
    ELSE LET id == CHOOSE x \in ids : TRUE
         IN  res[id].turnaroundTime + SumTurnaround(res, ids \ {id})

calculateAverageTurnaroundTime(res) ==
    IF DOMAIN res = {} THEN Quotient(0, 1)
    ELSE Quotient(SumTurnaround(res, DOMAIN res), Cardinality(DOMAIN res))

RECURSIVE SumSlotTime(_, _)
SumSlotTime(slots, k) ==
    IF k > Len(slots) THEN 0
    ELSE (slots[k].endTime - slots[k].startTime) + SumSlotTime(slots, k + 1)

\* mutant: the overhead segments are counted as productive time
calculateCPUUtilizationAllSlots(slots, totalTime, cpus) ==
    IF totalTime <= 0 THEN Quotient(0, 1)
    ELSE Quotient(SumSlotTime(slots, 1) * 100, totalTime * cpus)

\* mutant: the productive time is divided by the makespan alone
calculateCPUUtilizationOneCpu(slots, totalTime, cpus) ==
    IF totalTime <= 0 THEN Quotient(0, 1)
    ELSE LET productive(slot) == ~slot.isOverhead
             productiveTimeSlots == SelectSeq(slots, productive)
             totalProductiveTime == SumSlotTime(productiveTimeSlots, 1)
         IN  Quotient(totalProductiveTime * 100, totalTime)

calculateCPUUtilization(slots, totalTime, cpus) ==
    IF totalTime <= 0 THEN Quotient(0, 1)
    ELSE LET productive(slot) == ~slot.isOverhead
             productiveTimeSlots == SelectSeq(slots, productive)
             totalProductiveTime == SumSlotTime(productiveTimeSlots, 1)
         IN  Quotient(totalProductiveTime * 100, totalTime * cpus)

\* cpuTimeSlots.length > 0 ? Math.max(...endTime) : 0
totalTime(slots) ==
    IF Len(slots) > 0
    THEN CHOOSE m \in {slots[k].endTime : k \in 1..Len(slots)} :
             \A k \in 1..Len(slots) : slots[k].endTime <= m
    ELSE 0

cpuUtilization == calculateCPUUtilization(cpuTimeSlots, totalTime(cpuTimeSlots), cpuCount)

averageTurnaroundTime == calculateAverageTurnaroundTime(jobResults)

\* the returned ScheduleResult; the basic variants return three fields
Result ==
    IF algorithm \in {"SRTN_OV", "RR_OV"}
    THEN [jobResults |-> jobResults, cpuTimeSlots |-> cpuTimeSlots,
          queueSnapshots |-> queueSnapshots,
          averageTurnaroundTime |-> averageTurnaroundTime,
          cpuUtilization |-> cpuUtilization]
    ELSE [jobResults |-> jobResults, cpuTimeSlots |-> cpuTimeSlots,
          averageTurnaroundTime |-> averageTurnaroundTime]

\* nothing has been returned yet
NoResult == [returned |-> FALSE]

\* the engine function is called directly, not by the JobScheduler component
Direct == [variant |-> 0, activeAlgorithm |-> "", scheduleResult |-> NoResult,
           toast |-> "none"]

(***************************************************************************)
(* The inputs explored.  Every valid input within the bounds: unique ids   *)
(* 1..n in list order, arrivalTime >= 0, burstTime > 0, remainingTime =    *)
(* burstTime, cpuCount >= 1, timeQuantum > 0, switchingOverhead >= 0.      *)
(* The basic variants take no switchingOverhead and SRTN no timeQuantum.   *)
(***************************************************************************)

Input(alg, c, q, ov, arr, bur) ==
    [algorithm |-> alg, cpuCount |-> c, timeQuantum |-> q,
     switchingOverhead |-> ov, arrivalTime |-> arr, burstTime |-> bur]

\* the timeQuantum and switchingOverhead arguments an engine function can get
Quanta(alg) == IF alg \in {"RR", "RR_OV"} THEN 1..MaxQuantum ELSE {0}

Overheads(alg) == IF alg \in {"SRTN_OV", "RR_OV"} THEN 0..MaxOverhead ELSE {0}

\* The job list and CPU count the scheduler page starts with
\* (J1(0,4), J2(0,2), J3(1,6), J4(1,1) on 2 CPUs), for both SRTN variants.
DefaultJobs ==
    {Input(alg, 2, 0, 0, <<0, 0, 1, 1>>, <<4, 2, 6, 1>>) : alg \in {"SRTN_OV", "SRTN"}}

\* One job running alone when two jobs arrive, a shorter and a longer one,
\* on three CPUs.
ThreeCpuInputs ==
    {Input("SRTN_OV", 3, 0, ov, <<0, 1, 1>>, <<3, 1, 3>>) : ov \in 0..MaxOverhead}

\* A running job whose remaining time, when two jobs arrive, equals the
\* burst time of one of them, on three CPUs.
EqualRemainingInputs ==
    {Input("SRTN_OV", 3, 0, ov, <<0, 1, 1>>, <<3, 1, 2>>) : ov \in 0..MaxOverhead}

\* a job completes while another keeps running and a third has yet to arrive
CompletionBesideRunningInputs ==
    {Input(a, 2, 0, 0, <<0, 0, 2>>, <<1, 2, 1>>) : a \in {"SRTN_OV", "SRTN"}}

\* a job takes over a CPU from a job that completes at the instant at which
\* a shorter job arrives, on two CPUs
HandOffAtArrivalInputs ==
    {Input("SRTN_OV", 2, 0, ov, <<0, 0, 0, 1>>, <<1, 2, 3, 1>>) : ov \in 0..MaxOverhead}

ScenarioInputs ==
    DefaultJobs \cup ThreeCpuInputs \cup EqualRemainingInputs
        \cup CompletionBesideRunningInputs \cup HandOffAtArrivalInputs

(***************************************************************************)
(* The state when the while loop is first reached.                         *)
(***************************************************************************)

Start(in) ==
    LET n == Len(in.arrivalTime)
        c == in.cpuCount
        js == [id \in 1..n |-> [arrivalTime |-> in.arrivalTime[id],
                                burstTime |-> in.burstTime[id]]]
        byArrival == [a \in 1..n, b \in 1..n |-> sortByArrivalTime(js, a, b)]
        \* the caller passes remainingTime = burstTime
        copies == [id \in 1..n |-> in.burstTime[id]]
    IN  /\ algorithm = in.algorithm
        /\ jobs = js
        /\ cpuCount = c
        /\ timeQuantum = in.timeQuantum
        /\ switchingOverhead = in.switchingOverhead
        /\ remainingJobs = StableSort([k \in 1..n |-> k], byArrival)
        /\ readyQueue = <<>>
        /\ remainingTime = copies
        /\ completedJobs = <<>>
        /\ cpuTimeSlots = <<>>
        /\ queueSnapshots = IF in.algorithm \in {"SRTN_OV", "RR_OV"}
                            THEN <<takeQueueSnapshot(0, <<>>, copies)>>
                            ELSE <<>>
        /\ currentTime = 0
        /\ nextEventTime = 0
        /\ jobResults = <<>>
        /\ jobStartTimes = [id \in 1..n |-> NoTime]
        /\ cpuJobs = [i \in 0..(c - 1) |-> NoJob]
        /\ cpuTimeRemaining = [i \in 0..(c - 1) |-> 0]
        /\ cpuOverheadEndTimes = [i \in 0..(c - 1) |-> 0]
        /\ pc = "loop"
        /\ exitedBy = "none"
        /\ cpuAcceptTime = [i \in 0..(c - 1) |-> 0]
        /\ enqLog = <<>>
        /\ deqLog = <<>>
        /\ callerRemainingTime = copies
        /\ run = 1
        /\ firstResult = NoResult
        /\ page = Direct

(***************************************************************************)
(* The caller calls the same engine function again, with the same job      *)
(* array and the same other arguments: the locals are set up anew          *)
(* (lines 72-95) from the caller's Job objects as they are now.            *)
(***************************************************************************)

\* the locals of an engine function as lines 72-95 set them up (also
\* 283-307, 530-548, 667-686), for engine function alg called with cpuCount
\* c and Job objects whose remainingTime fields are copies
Enter(alg, c, copies) ==
    LET byArrival == [a \in JobIds, b \in JobIds |-> sortByArrivalTime(jobs, a, b)]
        n == Cardinality(JobIds)
    IN  /\ remainingJobs' = StableSort([k \in 1..n |-> k], byArrival)
        /\ readyQueue' = <<>>
        /\ remainingTime' = copies
        /\ completedJobs' = <<>>
        /\ cpuTimeSlots' = <<>>
        /\ queueSnapshots' = IF alg \in {"SRTN_OV", "RR_OV"}
                             THEN <<takeQueueSnapshot(0, <<>>, copies)>>
                             ELSE <<>>
        /\ currentTime' = 0
        /\ nextEventTime' = 0
        /\ jobResults' = <<>>
        /\ jobStartTimes' = [id \in JobIds |-> NoTime]
        /\ cpuJobs' = [i \in 0..(c - 1) |-> NoJob]
        /\ cpuTimeRemaining' = [i \in 0..(c - 1) |-> 0]
        /\ cpuOverheadEndTimes' = [i \in 0..(c - 1) |-> 0]
        /\ exitedBy' = "none"
        /\ cpuAcceptTime' = [i \in 0..(c - 1) |-> 0]
        /\ enqLog' = <<>>
        /\ deqLog' = <<>>

CallAgain ==
    /\ pc = "done"
    /\ page = Direct
    /\ run = 1
    /\ run' = 2
    /\ firstResult' = Result
    /\ Enter(algorithm, cpuCount, callerRemainingTime)
    /\ pc' = "loop"
    /\ UNCHANGED <<inputs, callerRemainingTime, page>>

Init ==
    \/ \E alg \in Algorithms, c \in 1..MaxCpus, n \in 1..MaxJobs :
       \E q \in Quanta(alg), ov \in Overheads(alg) :
       \E arr \in [1..n -> 0..MaxArrival], bur \in [1..n -> 1..MaxBurst] :
           Start(Input(alg, c, q, ov, arr, bur))
    \/ \E in \in ScenarioInputs : Start(in)

Next ==
    \/ SRTNOvAssign
    \/ SRTNOvProcess
    \/ RROvAssign
    \/ RROvProcess
    \/ SRTNAssign
    \/ SRTNProcess
    \/ RRAssign
    \/ RRProcess
    \/ Return

Spec == Init /\ [][Next]_vars

\* The loop is a sequential program: it always takes its next step.
FairSpec == Spec /\ WF_vars(Next)

NextOrCallAgain ==
    \/ Next
    \/ CallAgain

\* a run, followed by a second call with the same arguments
TwoRuns == Init /\ [][NextOrCallAgain]_vars

(***************************************************************************)
(* The JobScheduler component (src/unnamed/part_003) as the caller of the  *)
(* engine functions.  The file holds three variants of the component: 1    *)
(* calls the basic engine functions, 3 the overhead ones, 2 engine         *)
(* functions with a scheduleMode parameter that the source does not        *)
(* contain.  The component's cpuCount, jobs, timeQuantum and               *)
(* switchingOverhead fields are the variables of the same names.  Init is  *)
(* the component with its fields as the user has edited them before the    *)
(* first Calculate click; afterwards the user clicks Calculate SRTN or     *)
(* Calculate Round Robin and edits the CPU count, the quantum and the      *)
(* jobs, in any order.  An engine function runs to its return before the   *)
(* component handles anything else.                                        *)
(***************************************************************************)

\* the longest job list the component is explored with
MaxPageJobs == 1

PageVariants == {1, 2, 3}

\* the local variables of an engine function
locals ==
    <<remainingJobs, readyQueue, remainingTime, completedJobs, cpuTimeSlots,
      queueSnapshots, currentTime, nextEventTime, jobResults, jobStartTimes,
      cpuJobs, cpuTimeRemaining, cpuOverheadEndTimes, exitedBy, cpuAcceptTime,
      enqLog, deqLog, callerRemainingTime>>

\* no call of an engine function is in progress: its locals do not exist
NoCall ==
    /\ remainingJobs' = <<>>
    /\ readyQueue' = <<>>
    /\ remainingTime' = <<>>
    /\ completedJobs' = <<>>
    /\ cpuTimeSlots' = <<>>
    /\ queueSnapshots' = <<>>
    /\ currentTime' = 0
    /\ nextEventTime' = 0
    /\ jobResults' = <<>>
    /\ jobStartTimes' = <<>>
    /\ cpuJobs' = <<>>
    /\ cpuTimeRemaining' = <<>>
    /\ cpuOverheadEndTimes' = <<>>
    /\ exitedBy' = "none"
    /\ cpuAcceptTime' = <<>>
    /\ enqLog' = <<>>
    /\ deqLog' = <<>>
    /\ callerRemainingTime' = <<>>

\* job.arrivalTime < 0 || job.burstTime <= 0 for some job of the list
SomeJobInvalid ==
    \E id \in JobIds : jobs[id].arrivalTime < 0 \/ jobs[id].burstTime <= 0

\* mutant: the CPU count is not validated
validateInputsNoCpuCheck ==
    IF page.variant # 1 /\ Cardinality(JobIds) = 0 THEN "No jobs to schedule"
    ELSE IF SomeJobInvalid THEN "Invalid job parameters"
    ELSE "ok"

\* mutant: the jobs are not validated
validateInputsNoJobCheck ==
    IF cpuCount = Blank \/ cpuCount < 1 THEN "Invalid CPU count"
    ELSE IF /\ page.activeAlgorithm = "RR"
            /\ (timeQuantum = Blank \/ timeQuantum <= 0)
         THEN "Invalid time quantum"
    ELSE IF /\ page.variant = 3
            /\ (switchingOverhead = Blank \/ switchingOverhead < 0)
         THEN "Invalid switching overhead"
    ELSE "ok"

\* validateInputs: "ok" for true, else the title of the toast it shows
validateInputs ==
    IF page.variant = 1
    THEN IF cpuCount < 1 THEN "Invalid CPU count"
         ELSE IF page.activeAlgorithm = "RR" /\ timeQuantum <= 0
              THEN "Invalid time quantum"
         ELSE IF SomeJobInvalid THEN "Invalid job parameters"
         ELSE "ok"
    ELSE IF Cardinality(JobIds) = 0 THEN "No jobs to schedule"
         ELSE IF cpuCount = Blank \/ cpuCount < 1 THEN "Invalid CPU count"
         ELSE IF /\ page.activeAlgorithm = "RR"
                 /\ (timeQuantum = Blank \/ timeQuantum <= 0)
              THEN "Invalid time quantum"
         ELSE IF /\ page.variant = 3
                 /\ (switchingOverhead = Blank \/ switchingOverhead < 0)
              THEN "Invalid switching overhead"
         ELSE IF SomeJobInvalid THEN "Invalid job parameters"
         ELSE "ok"

\* the calculateSRTN the variant imports
SRTNEngine == IF page.variant = 1 THEN "SRTN" ELSE "SRTN_OV"

\* the calculateRoundRobin the variant imports
RREngine == IF page.variant = 1 THEN "RR" ELSE "RR_OV"

\* jobs.map(job => ({...job, remainingTime: job.burstTime}))
jobsWithResetTime == [id \in JobIds |-> jobs[id].burstTime]

\* calculateSRTNSchedule, up to the call of calculateSRTN: by a click on
\* Calculate SRTN, or by the effect that recalculates after an edit
calculateSRTNSchedule ==
    /\ page.variant \in PageVariants
    /\ \/ pc = "page"
       \/ pc = "effect" /\ page.activeAlgorithm = "SRTN"
    /\ IF validateInputs # "ok"
       THEN /\ page' = [page EXCEPT !.toast = validateInputs]
            /\ pc' = "page"
            /\ UNCHANGED <<inputs, run, firstResult, locals>>
       ELSE /\ page' = [page EXCEPT !.activeAlgorithm = "SRTN"]
            /\ IF page.variant = 2
               THEN /\ pc' = "external"
                    /\ UNCHANGED <<inputs, locals>>
               ELSE /\ algorithm' = SRTNEngine
                    /\ callerRemainingTime' = jobsWithResetTime
                    /\ Enter(SRTNEngine, cpuCount, jobsWithResetTime)
                    /\ pc' = "loop"
                    /\ UNCHANGED <<jobs, cpuCount, timeQuantum, switchingOverhead>>
            /\ UNCHANGED <<run, firstResult>>

\* calculateRoundRobinSchedule, up to the call of calculateRoundRobin: by a
\* click on Calculate Round Robin, or by the effect
calculateRoundRobinSchedule ==
    /\ page.variant \in PageVariants
    /\ \/ pc = "page"
       \/ pc = "effect" /\ page.activeAlgorithm = "RR"
    /\ IF validateInputs # "ok"
       THEN /\ page' = [page EXCEPT !.toast = validateInputs]
            /\ pc' = "page"
            /\ UNCHANGED <<inputs, run, firstResult, locals>>
       ELSE /\ page' = [page EXCEPT !.activeAlgorithm = "RR"]
            /\ IF page.variant = 2
               THEN /\ pc' = "external"
                    /\ UNCHANGED <<inputs, locals>>
               ELSE /\ algorithm' = RREngine
                    /\ callerRemainingTime' = jobsWithResetTime
                    /\ Enter(RREngine, cpuCount, jobsWithResetTime)
                    /\ pc' = "loop"
                    /\ UNCHANGED <<jobs, cpuCount, timeQuantum, switchingOverhead>>
            /\ UNCHANGED <<run, firstResult>>

\* the engine function has returned: setScheduleResult(result) and the toast
setScheduleResult ==
    /\ page.variant \in PageVariants
    /\ pc = "done"
    /\ page' = [page EXCEPT !.scheduleResult = Result,
                            !.toast = IF algorithm \in {"RR", "RR_OV"}
                                      THEN "Round Robin Schedule Calculated"
                                      ELSE "SRTN Schedule Calculated"]
    /\ NoCall
    /\ pc' = "page"
    /\ UNCHANGED <<inputs, run, firstResult>>

\* what the CPU count field's onChange hands to setCpuCount:
\* parseInt(value) || 1 in variant 1, value ? parseInt(value) : "" in 2 and 3
ParsedCpuCount(typed) ==
    IF page.variant = 1
    THEN IF typed = Blank \/ typed = 0 THEN 1 ELSE typed
    ELSE typed

\* what the quantum field's onChange hands to setTimeQuantum:
\* parseFloat(value) || 1 in variant 1, value ? parseFloat(value) : "" in 2, 3
ParsedTimeQuantum(typed) ==
    IF page.variant = 1
    THEN IF typed = Blank \/ typed = 0 THEN 1 ELSE typed
    ELSE typed

\* the condition of the effect that recalculates when cpuCount or timeQuantum
\* has changed, with the fields' new values c and q
RecalculateAfterEdit(c, q) ==
    /\ page.activeAlgorithm # ""
    /\ page.scheduleResult # NoResult
    /\ page.variant # 1 =>
          /\ Cardinality(JobIds) > 0
          /\ c # Blank
          /\ page.activeAlgorithm # "RR" \/ q # Blank
          /\ page.variant = 3 => switchingOverhead # Blank

\* the user types into the CPU count field
setCpuCount ==
    /\ page.variant \in PageVariants
    /\ pc = "page"
    /\ \E typed \in {Blank} \cup 0..MaxCpus :
          /\ ParsedCpuCount(typed) # cpuCount
          /\ cpuCount' = ParsedCpuCount(typed)
          /\ pc' = IF RecalculateAfterEdit(ParsedCpuCount(typed), timeQuantum)
                   THEN "effect" ELSE "page"
    /\ UNCHANGED <<algorithm, jobs, timeQuantum, switchingOverhead, calls, locals>>

\* the user types into the quantum field
setTimeQuantum ==
    /\ page.variant \in PageVariants
    /\ pc = "page"
    /\ \E typed \in {Blank} \cup (-1)..MaxQuantum :
          /\ ParsedTimeQuantum(typed) # timeQuantum
          /\ timeQuantum' = ParsedTimeQuantum(typed)
          /\ pc' = IF RecalculateAfterEdit(cpuCount, ParsedTimeQuantum(typed))
                   THEN "effect" ELSE "page"
    /\ UNCHANGED <<algorithm, jobs, cpuCount, switchingOverhead, calls, locals>>

\* addJob: a job J<length + 1> with arrivalTime 0 and burstTime 1
addJob ==
    /\ page.variant \in PageVariants
    /\ pc = "page"
    /\ Len(jobs) < MaxPageJobs
    /\ jobs' = Append(jobs, [arrivalTime |-> 0, burstTime |-> 1])
    /\ UNCHANGED <<algorithm, cpuCount, timeQuantum, switchingOverhead, calls,
                   locals, pc>>

\* removeLastJob: variant 1 keeps the last job of the list
removeLastJob ==
    /\ page.variant \in PageVariants
    /\ pc = "page"
    /\ IF Len(jobs) > 1 \/ (Len(jobs) = 1 /\ page.variant # 1)
       THEN /\ jobs' = SubSeq(jobs, 1, Len(jobs) - 1)
            /\ page' = page
       ELSE /\ jobs' = jobs
            /\ page' = [page EXCEPT !.toast = IF page.variant = 1
                                              THEN "Cannot remove job"
                                              ELSE "No jobs to remove"]
    /\ UNCHANGED <<algorithm, cpuCount, timeQuantum, switchingOverhead, run,
                   firstResult, locals, pc>>

\* updateJob(jobId, field, value) from a field of the job table: the table
\* of src/src/components/JobList.tsx hands over any number but 0 as a burst
\* time, and any number as an arrival time
updateJob ==
    /\ page.variant \in PageVariants
    /\ pc = "page"
    /\ \E id \in JobIds :
          \/ \E value \in (-1)..MaxArrival :
                /\ value # jobs[id].arrivalTime
                /\ jobs' = [jobs EXCEPT ![id].arrivalTime = value]
          \/ \E value \in {-1} \cup 1..MaxBurst :
                /\ value # jobs[id].burstTime
                /\ jobs' = [jobs EXCEPT ![id].burstTime = value]
    /\ UNCHANGED <<algorithm, cpuCount, timeQuantum, switchingOverhead, calls,
                   locals, pc>>

PageStart(v, c, ov, arr, bur) ==
    LET n == Len(arr)
    IN  /\ page = [variant |-> v, activeAlgorithm |-> "",
                   scheduleResult |-> NoResult, toast |-> "none"]
        /\ algorithm = "none"
        /\ jobs = [id \in 1..n |-> [arrivalTime |-> arr[id], burstTime |-> bur[id]]]
        /\ cpuCount = c
        /\ timeQuantum = IF v = 1 THEN 1 ELSE Blank
        /\ switchingOverhead = ov
        /\ remainingJobs = <<>>
        /\ readyQueue = <<>>
        /\ remainingTime = <<>>
        /\ completedJobs = <<>>
        /\ cpuTimeSlots = <<>>
        /\ queueSnapshots = <<>>
        /\ currentTime = 0
        /\ nextEventTime = 0
        /\ jobResults = <<>>
        /\ jobStartTimes = <<>>
        /\ cpuJobs = <<>>
        /\ cpuTimeRemaining = <<>>
        /\ cpuOverheadEndTimes = <<>>
        /\ pc = "page"
        /\ exitedBy = "none"
        /\ cpuAcceptTime = <<>>
        /\ enqLog = <<>>
        /\ deqLog = <<>>
        /\ callerRemainingTime = <<>>
        /\ run = 1
        /\ firstResult = NoResult

\* variant 1 keeps at least one job and a CPU count that parseInt(..) || 1
\* lets through; only variant 3 has a switching overhead field
PageInit ==
    \/ \E n \in 1..MaxPageJobs, c \in 1..MaxCpus :
       \E arr \in [1..n -> 0..MaxArrival], bur \in [1..n -> 1..MaxBurst] :
           PageStart(1, c, 0, arr, bur)
    \/ \E n \in 0..MaxPageJobs, c \in {Blank} \cup 0..MaxCpus :
       \E arr \in [1..n -> 0..MaxArrival], bur \in [1..n -> 1..MaxBurst] :
           PageStart(2, c, 0, arr, bur)
    \/ \E n \in 0..MaxPageJobs, c \in {Blank} \cup 0..MaxCpus :
       \E ov \in {Blank} \cup 0..MaxOverhead :
       \E arr \in [1..n -> 0..MaxArrival], bur \in [1..n -> 1..MaxBurst] :
           PageStart(3, c, ov, arr, bur)

PageNext ==
    \/ calculateSRTNSchedule
    \/ calculateRoundRobinSchedule
    \/ setScheduleResult
    \/ setCpuCount
    \/ setTimeQuantum
    \/ addJob
    \/ removeLastJob
    \/ updateJob
    \/ SRTNOvAssign
    \/ SRTNOvProcess
    \/ SRTNAssign
    \/ SRTNProcess
    \/ RROvAssign
    \/ RROvProcess
    \/ RRAssign
    \/ RRProcess
    \/ Return

PageSpec == PageInit /\ [][PageNext]_vars

(***************************************************************************)
(* Round Robin in quantum-boundary mode.  Variant 2 of the component calls *)
(* calculateRoundRobin(jobs, cpuCount, timeQuantum, scheduleMode) with     *)
(* scheduleMode "quantum" by default (src/unnamed/part_003, lines 265 and  *)
(* 376-381).  That engine function is not among the sources, which hold    *)
(* only its caller and the texts that describe it; it is modelled here     *)
(* from sections 4.1, 4.3 and 5 of the specification.  Idle periods are    *)
(* left unrecorded, as in the other engine functions.                      *)
(***************************************************************************)

\* calculateRoundRobin called with scheduleMode "quantum"
QuantumMode == "RR_QUANTUM"

\* mutant: end-time mode, a freed CPU takes the next job at any instant
atQuantumBoundaryAlways(t) == TRUE

\* simulated time t is a whole multiple of the quantum
atQuantumBoundary(t) == t % quantum = 0

\* the next multiple of the quantum after t
nextQuantumBoundary(t) == ((t \div quantum) + 1) * quantum

\* a free CPU takes the head of the FIFO queue, at a boundary only
QuantumAssignCpu(s, i, t) ==
    IF atQuantumBoundary(t) /\ s.cj[i] = NoJob /\ Len(s.q) > 0
    THEN Dispatch(s, i, t, quantum)
    ELSE s

RECURSIVE QuantumAssignLoop(_, _, _)
QuantumAssignLoop(s, i, t) ==
    IF i >= cpuCount THEN s
    ELSE QuantumAssignLoop(QuantumAssignCpu(s, i, t), i + 1, t)

\* the earliest of the next arrival, the completions of the running jobs
\* and the next quantum boundary
QuantumNextEventTime(s, rj, t) ==
    LET arrival == IF Len(rj) > 0 THEN jobs[rj[1]].arrivalTime ELSE Infinity
        events == {t + s.rem[s.cj[i]] : i \in {c \in Cpus : s.cj[c] # NoJob}}
    IN  MinOf({arrival, nextQuantumBoundary(t)} \cup events)

QuantumAssign ==
    /\ algorithm = QuantumMode
    /\ pc = "loop"
    /\ RRLoopCondition
    /\ LET arrived == newlyArrivedJobs(remainingJobs, currentTime, 1)
           rj == notYetArrived(remainingJobs, currentTime)
       IN  \E s \in {QuantumAssignLoop(Push(LoopState, arrived), 0, currentTime)} :
               /\ remainingJobs' = rj
               /\ Install(s)
               /\ nextEventTime' = QuantumNextEventTime(s, rj, currentTime)
               /\ pc' = "process"
    /\ UNCHANGED <<inputs, calls, currentTime, queueSnapshots, exitedBy>>

\* every running job is charged the interval; a job that is complete leaves
\* its CPU, a job whose quantum is used up goes to the tail of the queue
QuantumProcess ==
    /\ algorithm = QuantumMode
    /\ pc = "process"
    /\ \E s \in {RRProcessLoop(LoopState, 0, currentTime, nextEventTime)} :
          Install(s)
    /\ currentTime' = nextEventTime
    /\ pc' = "loop"
    /\ UNCHANGED <<inputs, calls, remainingJobs, nextEventTime, queueSnapshots, exitedBy>>

QuantumInit ==
    \E c \in 1..MaxCpus, n \in 1..MaxJobs, q \in 1..MaxQuantum :
    \E arr \in [1..n -> 0..MaxArrival], bur \in [1..n -> 1..MaxBurst] :
        Start(Input(QuantumMode, c, q, 0, arr, bur))

QuantumNext ==
    \/ QuantumAssign
    \/ QuantumProcess
    \/ Return

QuantumSpec == QuantumInit /\ [][QuantumNext]_vars

(***************************************************************************)
(* Observations of a run used by the properties below.                     *)
(***************************************************************************)

SRTNVariants == {"SRTN_OV", "SRTN"}
RRVariants == {"RR_OV", "RR"}

\* every job has exactly one result and nothing is left anywhere
AllJobsCompleted ==
    /\ DOMAIN jobResults = JobIds
    /\ \A id \in JobIds : Occurrences(completedJobs, id) = 1
    /\ remainingJobs = <<>>
    /\ readyQueue = <<>>
    /\ \A i \in Cpus : cpuJobs[i] = NoJob

\* CPU i runs its job during [currentTime, nextEventTime)
Runs(i) == cpuJobs[i] # NoJob /\ cpuOverheadEndTimes[i] <= currentTime

InOverhead(i) == cpuOverheadEndTimes[i] > currentTime

(***************************************************************************)
(* Properties                                                              *)
(***************************************************************************)

\* C1: when calculateSRTN (either variant) returns, every input job appears
\* exactly once in jobResults and no job is unarrived, waiting or on a CPU.
C1_SRTNCompletesEveryJob ==
    (pc = "done" /\ algorithm \in SRTNVariants) => AllJobsCompleted

\* C2: when calculateRoundRobin (either variant) returns, every input job
\* appears exactly once in jobResults and no job is unarrived, waiting or
\* on a CPU.
C2_RRCompletesEveryJob ==
    (pc = "done" /\ algorithm \in RRVariants) => AllJobsCompleted

\* a Round Robin run has returned after requeueing a job at least once
C2_Witness ==
    /\ pc = "done"
    /\ algorithm \in RRVariants
    /\ Cardinality(JobIds) >= 2
    /\ AllJobsCompleted
    /\ Len(enqLog) > Cardinality(JobIds)

\* C3: in calculateSRTN, during every interval [currentTime, nextEventTime)
\* no job waiting in the ready queue has a remaining time strictly smaller
\* than that of a job running on a CPU.
C3_SRTNRunsShortest ==
    (pc = "process" /\ algorithm \in SRTNVariants) =>
        \A k \in 1..Len(readyQueue) : \A i \in Cpus :
            Runs(i) => remainingTime[readyQueue[k]] >= remainingTime[cpuJobs[i]]

\* C4: in all four engine functions, during every interval
\* [currentTime, nextEventTime) in which a job waits in the ready queue,
\* every CPU is running a job or is inside a switching-overhead period.
C4_NoIdleCpuWhileJobWaits ==
    (pc = "process" /\ Len(readyQueue) > 0) =>
        \A i \in Cpus : cpuJobs[i] # NoJob \/ InOverhead(i)

\* CPU i holds a job it accepted at cpuAcceptTime[i]
SliceOpen(i) == cpuJobs[i] # NoJob

\* the step takes the job off CPU i (or hands the CPU the same job anew)
LeavesCpu(i) ==
    cpuJobs'[i] # cpuJobs[i] \/ cpuAcceptTime'[i] # cpuAcceptTime[i]

\* the step records CPU i running its job from currentTime to the new time
RunsInterval(i) ==
    \E k \in 1..Len(cpuTimeSlots') :
        cpuTimeSlots'[k] = JobSlot(i, cpuJobs[i], currentTime, currentTime')

C5_Step ==
    algorithm \in RRVariants =>
        \A i \in Cpus :
            SliceOpen(i) =>
                /\ currentTime - cpuAcceptTime[i] < timeQuantum
                /\ remainingTime[cpuJobs[i]] > 0
                /\ pc = "process" => RunsInterval(i)
                /\ LeavesCpu(i) =>
                      \/ remainingTime'[cpuJobs[i]] = 0
                      \/ currentTime' - cpuAcceptTime[i] = timeQuantum
                /\ ~LeavesCpu(i) =>
                      /\ remainingTime'[cpuJobs[i]] > 0
                      /\ currentTime' - cpuAcceptTime[i] < timeQuantum

\* C5: in calculateRoundRobin, a CPU that has accepted a job runs it in every
\* interval until the job completes or exactly timeQuantum time units have
\* passed since the acceptance; the job leaves the CPU at neither an earlier
\* nor a later instant.
C5_RRKeepsJobForSlice == [][C5_Step]_vars

\* a job that stayed on its CPU across another job's arrival and was then
\* requeued at the end of its quantum
C5_Witness ==
    /\ algorithm \in RRVariants
    /\ timeQuantum >= 2
    /\ \E k \in 1..Len(readyQueue) :
          LET id == readyQueue[k]
          IN  /\ remainingTime[id] < jobs[id].burstTime
              /\ remainingTime[id] > 0
              /\ \E a, b \in 1..Len(cpuTimeSlots) :
                    /\ a < b
                    /\ cpuTimeSlots[a].jobId = id
                    /\ cpuTimeSlots[b].jobId = id
                    /\ cpuTimeSlots[a].cpuId = cpuTimeSlots[b].cpuId
                    /\ cpuTimeSlots[a].endTime = cpuTimeSlots[b].startTime
                    /\ cpuTimeSlots[b].endTime - cpuTimeSlots[a].startTime = timeQuantum

\* C6: in calculateRoundRobin the ready queue is FIFO: jobs enter at the
\* tail (arrivals and requeued jobs alike) and leave from the head, so the
\* jobs dispatched so far are, in order, the first jobs that entered, and
\* the queue holds the rest in the order they entered.
C6_RRQueueIsFifo ==
    algorithm \in RRVariants => enqLog = deqLog \o readyQueue

\* a job requeued at the end of its quantum stands behind a job that was
\* already waiting and has never run
C6_Witness ==
    /\ algorithm \in RRVariants
    /\ Len(readyQueue) >= 2
    /\ LET first == readyQueue[1]
           last == readyQueue[Len(readyQueue)]
       IN  /\ remainingTime[first] = jobs[first].burstTime
           /\ jobStartTimes[first] = NoTime
           /\ remainingTime[last] < jobs[last].burstTime

RECURSIVE SumDurations(_, _, _)
SumDurations(slots, id, k) ==
    IF k > Len(slots) THEN 0
    ELSE (IF slots[k].jobId = id /\ ~slots[k].isOverhead
          THEN slots[k].endTime - slots[k].startTime
          ELSE 0) + SumDurations(slots, id, k + 1)

\* total duration of the productive segments of job id recorded so far
ProductiveTime(id) == SumDurations(cpuTimeSlots, id, 1)

\* C7: in the result of every engine function, the durations of each job's
\* productive segments add up to the job's burstTime.
C7_SegmentsSumToBurst ==
    pc = "done" => \A id \in JobIds : ProductiveTime(id) = jobs[id].burstTime

\* C8: every entry of jobResults has turnaroundTime = endTime - arrivalTime
\* and turnaroundTime >= burstTime.
C8_TurnaroundAtLeastBurst ==
    \A id \in DOMAIN jobResults :
        /\ jobResults[id].turnaroundTime = jobResults[id].endTime - jobs[id].arrivalTime
        /\ jobResults[id].turnaroundTime >= jobs[id].burstTime

\* a completed job that arrived after time 0, waited, and so took longer
\* than its burst
C8_Witness ==
    \E id \in DOMAIN jobResults :
        /\ jobs[id].arrivalTime > 0
        /\ jobResults[id].startTime > jobs[id].arrivalTime
        /\ jobResults[id].turnaroundTime > jobs[id].burstTime

\* C9: at every point of a run, the segments of one CPU (job and overhead
\* segments together) appear in cpuTimeSlots in non-decreasing startTime
\* order and none starts before an earlier one of that CPU has ended.
C9_SegmentsOrderedDisjoint ==
    \A a, b \in 1..Len(cpuTimeSlots) :
        (a < b /\ cpuTimeSlots[a].cpuId = cpuTimeSlots[b].cpuId) =>
            /\ cpuTimeSlots[a].startTime <= cpuTimeSlots[b].startTime
            /\ cpuTimeSlots[a].endTime <= cpuTimeSlots[b].startTime

\* one CPU has a job segment, then an overhead segment, then a job segment
C9_Witness ==
    \E a, b, c \in 1..Len(cpuTimeSlots) :
        /\ a < b /\ b < c
        /\ cpuTimeSlots[a].cpuId = cpuTimeSlots[b].cpuId
        /\ cpuTimeSlots[b].cpuId = cpuTimeSlots[c].cpuId
        /\ ~cpuTimeSlots[a].isOverhead
        /\ cpuTimeSlots[b].isOverhead
        /\ ~cpuTimeSlots[c].isOverhead

\* C10: every run of every engine function terminates: the loop is left
\* after finitely many iterations and the function returns.
C10_Terminates == <>(pc = "done")

\* a run that returned after at least three loop iterations that ran a job
C10_Witness ==
    /\ pc = "done"
    /\ currentTime >= 3
    /\ Len(cpuTimeSlots) >= 3

\* how many of the steps of the program the state allows
EnabledSteps ==
      (IF ENABLED SRTNOvAssign THEN 1 ELSE 0)
    + (IF ENABLED SRTNOvProcess THEN 1 ELSE 0)
    + (IF ENABLED RROvAssign THEN 1 ELSE 0)
    + (IF ENABLED RROvProcess THEN 1 ELSE 0)
    + (IF ENABLED SRTNAssign THEN 1 ELSE 0)
    + (IF ENABLED SRTNProcess THEN 1 ELSE 0)
    + (IF ENABLED RRAssign THEN 1 ELSE 0)
    + (IF ENABLED RRProcess THEN 1 ELSE 0)
    + (IF ENABLED Return THEN 1 ELSE 0)

C12_Step ==
    /\ jobs' = jobs
    /\ callerRemainingTime' = callerRemainingTime
    /\ (run = 1 /\ run' = 2) =>
          remainingTime' = [id \in JobIds |-> jobs[id].burstTime]

OverheadVariants == {"SRTN_OV", "RR_OV"}

\* segments a and b are productive segments of one CPU, a before b, with no
\* productive segment of that CPU between them
ConsecutiveProductive(a, b) ==
    /\ a < b
    /\ ~cpuTimeSlots[a].isOverhead
    /\ ~cpuTimeSlots[b].isOverhead
    /\ cpuTimeSlots[a].cpuId = cpuTimeSlots[b].cpuId
    /\ \A k \in (a + 1)..(b - 1) :
          cpuTimeSlots[k].cpuId = cpuTimeSlots[a].cpuId => cpuTimeSlots[k].isOverhead

\* an overhead segment of switchingOverhead length lies between a and b
OverheadBetween(a, b) ==
    \E k \in (a + 1)..(b - 1) :
        /\ cpuTimeSlots[k] = OverheadSlot(cpuTimeSlots[a].cpuId,
                                          cpuTimeSlots[k].startTime,
                                          cpuTimeSlots[k].startTime + switchingOverhead)
        /\ cpuTimeSlots[a].endTime <= cpuTimeSlots[k].startTime
        /\ cpuTimeSlots[k].endTime <= cpuTimeSlots[b].startTime

\* C13: in the overhead variants with switchingOverhead > 0, whenever two
\* consecutive productive segments of one CPU carry different job ids, an
\* overhead segment of exactly switchingOverhead duration on that CPU lies
\* between them (and, the segments of a CPU being disjoint, the CPU runs no
\* job during it).
C13_OverheadBetweenDifferentJobs ==
    (algorithm \in OverheadVariants /\ switchingOverhead > 0) =>
        \A a, b \in 1..Len(cpuTimeSlots) :
            (ConsecutiveProductive(a, b)
                /\ cpuTimeSlots[a].jobId # cpuTimeSlots[b].jobId)
            => OverheadBetween(a, b)

RECURSIVE SumProductive(_)
SumProductive(ids) ==
    IF ids = {} THEN 0
    ELSE LET id == CHOOSE x \in ids : TRUE
         IN  ProductiveTime(id) + SumProductive(ids \ {id})

\* the time all CPUs together spent running jobs, by job
TotalProductiveTime == SumProductive(JobIds)

\* m is the latest endTime of the segments recorded
IsMakespan(m) ==
    /\ \A k \in 1..Len(cpuTimeSlots) : cpuTimeSlots[k].endTime <= m
    /\ \E k \in 1..Len(cpuTimeSlots) : cpuTimeSlots[k].endTime = m

\* C14: in the overhead variants the cpuUtilization computed from the
\* segments recorded (the returned figure, when the run has ended) is
\* (total duration of the non-overhead segments) / (makespan * cpuCount)
\* * 100 with makespan the latest endTime of all segments, and 0 when there
\* are no segments; overhead segments add nothing to the numerator.
C14_UtilizationFormula ==
    algorithm \in OverheadVariants =>
        IF cpuTimeSlots = <<>>
        THEN cpuUtilization.num = 0 /\ cpuUtilization.den > 0
        ELSE \E k \in 1..Len(cpuTimeSlots) :
                LET makespan == cpuTimeSlots[k].endTime
                IN  /\ IsMakespan(makespan)
                    /\ makespan > 0
                    /\ cpuUtilization.den > 0
                    /\ cpuUtilization.num * (makespan * cpuCount)
                          = (TotalProductiveTime * 100) * cpuUtilization.den

\* a run of an overhead variant on two or more CPUs has returned a trace
\* with an overhead segment and a utilization strictly between 0 and 100
C14_Witness ==
    /\ pc = "done"
    /\ algorithm \in OverheadVariants
    /\ cpuCount >= 2
    /\ \E k \in 1..Len(cpuTimeSlots) : cpuTimeSlots[k].isOverhead
    /\ cpuUtilization.num > 0
    /\ cpuUtilization.num < 100 * cpuUtilization.den

\* C15: the cpuUtilization the overhead variants compute, at the return and
\* at every point of the run before, lies in [0, 100]: the productive time
\* never exceeds makespan * cpuCount.
C15_UtilizationInRange ==
    algorithm \in OverheadVariants =>
        /\ cpuUtilization.den > 0
        /\ 0 <= cpuUtilization.num
        /\ cpuUtilization.num <= 100 * cpuUtilization.den

\* a run on two or more CPUs has returned with every CPU busy from time 0
\* to the end: the utilization is exactly 100
C15_Witness ==
    /\ pc = "done"
    /\ algorithm \in OverheadVariants
    /\ cpuCount >= 2
    /\ Len(cpuTimeSlots) >= 2
    /\ cpuUtilization.num = 100 * cpuUtilization.den

\* SRTN on the job list and CPU count the scheduler page starts with, no
\* switching overhead
Scenario1 ==
    /\ algorithm \in SRTNVariants
    /\ cpuCount = 2
    /\ switchingOverhead = 0
    /\ jobs = <<[arrivalTime |-> 0, burstTime |-> 4],
                [arrivalTime |-> 0, burstTime |-> 2],
                [arrivalTime |-> 1, burstTime |-> 6],
                [arrivalTime |-> 1, burstTime |-> 1]>>

\* job id first runs on CPU i, from time t
StartsOn(id, i, t) ==
    /\ jobStartTimes[id] = t
    /\ \E k \in 1..Len(cpuTimeSlots) :
          /\ cpuTimeSlots[k].jobId = id
          /\ cpuTimeSlots[k].cpuId = i
          /\ cpuTimeSlots[k].startTime = t
          /\ \A j \in 1..(k - 1) : cpuTimeSlots[j].jobId # id

\* job id completes at time t, on CPU i
CompletesOn(id, i, t) ==
    /\ id \in DOMAIN jobResults
    /\ jobResults[id].endTime = t
    /\ \E k \in 1..Len(cpuTimeSlots) :
          /\ cpuTimeSlots[k].jobId = id
          /\ cpuTimeSlots[k].cpuId = i
          /\ cpuTimeSlots[k].endTime = t

\* C16 as stated: in scenario 1, J1 and J2 both start at t=0 with J1 on CPU0
\* and J2 on CPU1; J2 completes at t=2 and J4 takes CPU1 at t=2.
C16_Scenario1Placement ==
    (Scenario1 /\ pc = "done") =>
        /\ StartsOn(1, 0, 0)
        /\ StartsOn(2, 1, 0)
        /\ CompletesOn(2, 1, 2)
        /\ StartsOn(4, 1, 2)

\* C16 as amended: in scenario 1, J1 and J2 both start at t=0 with J2, the
\* shorter job, on CPU0 and J1 on CPU1; J2 completes at t=2 on CPU0; J4
\* starts on CPU0 at t=2, the instant J2 completes there, in the overhead
\* variant, and on CPU1 at t=1, the instant it arrives, in the basic variant.
C16_Scenario1PlacementAmended ==
    (Scenario1 /\ pc = "done") =>
        /\ StartsOn(2, 0, 0)
        /\ StartsOn(1, 1, 0)
        /\ CompletesOn(2, 0, 2)
        /\ algorithm = "SRTN_OV" => StartsOn(4, 0, 2)
        /\ algorithm = "SRTN" => StartsOn(4, 1, 1)

\* scenario 1 has run to its return and J4 has completed
C16_Witness ==
    /\ Scenario1
    /\ pc = "done"
    /\ 4 \in DOMAIN jobResults
    /\ 2 \in DOMAIN jobResults

\* C17: in scenario 1 all four jobs complete and their endTimes are strictly
\* ordered: endTime(J2) < endTime(J4) < endTime(J1) < endTime(J3).
C17_Scenario1CompletionOrder ==
    (Scenario1 /\ pc = "done") =>
        /\ DOMAIN jobResults = {1, 2, 3, 4}
        /\ jobResults[2].endTime < jobResults[4].endTime
        /\ jobResults[4].endTime < jobResults[1].endTime
        /\ jobResults[1].endTime < jobResults[3].endTime

\* Round Robin on one CPU with quantum 2 and no overhead, J1(0,3), J2(1,2)
Scenario2 ==
    /\ algorithm \in RRVariants
    /\ cpuCount = 1
    /\ timeQuantum = 2
    /\ switchingOverhead = 0
    /\ jobs = <<[arrivalTime |-> 0, burstTime |-> 3],
                [arrivalTime |-> 1, burstTime |-> 2]>>

\* CPU i runs job id during all of [from, to): its segments cover every
\* time unit of the interval and no segment of the CPU that overlaps the
\* interval belongs to anything else
RunsDuring(i, id, from, to) ==
    /\ \A u \in from..(to - 1) :
          \E k \in 1..Len(cpuTimeSlots) :
              /\ cpuTimeSlots[k].cpuId = i
              /\ cpuTimeSlots[k].jobId = id
              /\ cpuTimeSlots[k].startTime <= u
              /\ u + 1 <= cpuTimeSlots[k].endTime
    /\ \A k \in 1..Len(cpuTimeSlots) :
          (/\ cpuTimeSlots[k].cpuId = i
           /\ cpuTimeSlots[k].startTime < to
           /\ from < cpuTimeSlots[k].endTime) => cpuTimeSlots[k].jobId = id

\* C18: in scenario 2 the CPU runs J1 during [0,2), J2 during [2,4) and J1
\* during [4,5) and nothing after; J2 completes at t=4 and J1 at t=5, with
\* turnaround(J1) = 5 and turnaround(J2) = 3.
C18_Scenario2 ==
    (Scenario2 /\ pc = "done") =>
        /\ RunsDuring(0, 1, 0, 2)
        /\ RunsDuring(0, 2, 2, 4)
        /\ RunsDuring(0, 1, 4, 5)
        /\ \A k \in 1..Len(cpuTimeSlots) : cpuTimeSlots[k].endTime <= 5
        /\ DOMAIN jobResults = {1, 2}
        /\ jobResults[2].endTime = 4
        /\ jobResults[1].endTime = 5
        /\ jobResults[1].turnaroundTime = 5
        /\ jobResults[2].turnaroundTime = 3

\* scenario 2 has run to its return, J1 having been requeued behind J2
C18_Witness ==
    /\ Scenario2
    /\ pc = "done"
    /\ enqLog = <<1, 2, 1>>
    /\ completedJobs = <<2, 1>>

\* a single job on a single CPU, no switching overhead
Scenario4 ==
    /\ JobIds = {1}
    /\ cpuCount = 1
    /\ switchingOverhead = 0

\* the segments recorded follow one another without a gap from time from
\* to time to, all of them job id's on CPU i
ContiguousRun(i, id, from, to) ==
    /\ Len(cpuTimeSlots) >= 1
    /\ cpuTimeSlots[1].startTime = from
    /\ cpuTimeSlots[Len(cpuTimeSlots)].endTime = to
    /\ \A k \in 1..Len(cpuTimeSlots) :
          /\ cpuTimeSlots[k].cpuId = i
          /\ cpuTimeSlots[k].jobId = id
          /\ ~cpuTimeSlots[k].isOverhead
          /\ cpuTimeSlots[k].startTime < cpuTimeSlots[k].endTime
          /\ k > 1 => cpuTimeSlots[k].startTime = cpuTimeSlots[k - 1].endTime

\* C19 as stated: for a single job on a single CPU without overhead all
\* engine functions return the same result: one segment [arrivalTime,
\* arrivalTime + burstTime) on CPU 0, turnaround = burstTime, and a
\* utilization of 100.
C19_Scenario4 ==
    (Scenario4 /\ pc = "done") =>
        /\ cpuTimeSlots = <<JobSlot(0, 1, jobs[1].arrivalTime,
                                    jobs[1].arrivalTime + jobs[1].burstTime)>>
        /\ DOMAIN jobResults = {1}
        /\ jobResults[1].turnaroundTime = jobs[1].burstTime
        /\ algorithm \in OverheadVariants =>
              cpuUtilization.num = 100 * cpuUtilization.den

\* C19 as amended: for a single job on a single CPU without overhead, SRTN
\* and Round Robin both run the job on CPU 0 without a gap during exactly
\* [arrivalTime, arrivalTime + burstTime), recorded as one segment by SRTN
\* and as one segment per quantum slice (ceil(burstTime / timeQuantum)
\* contiguous segments) by Round Robin, and return the same jobResults:
\* startTime = arrivalTime, endTime = arrivalTime + burstTime, turnaround =
\* burstTime; the utilization (overhead variants) is burstTime /
\* (arrivalTime + burstTime) * 100, which is 100 exactly when arrivalTime = 0.
C19_Scenario4Amended ==
    (Scenario4 /\ pc = "done") =>
        LET a == jobs[1].arrivalTime
            b == jobs[1].burstTime
        IN  /\ ContiguousRun(0, 1, a, a + b)
            /\ RunsDuring(0, 1, a, a + b)
            /\ algorithm \in SRTNVariants => Len(cpuTimeSlots) = 1
            /\ algorithm \in RRVariants =>
                  Len(cpuTimeSlots) = (b + timeQuantum - 1) \div timeQuantum
            /\ DOMAIN jobResults = {1}
            /\ jobResults[1] = [startTime |-> a, endTime |-> a + b,
                                turnaroundTime |-> b]
            /\ algorithm \in OverheadVariants =>
                  /\ cpuUtilization.num * (a + b) = (100 * b) * cpuUtilization.den
                  /\ (cpuUtilization.num = 100 * cpuUtilization.den) <=> (a = 0)

\* a Round Robin run of a single job that arrives after time 0 and needs
\* more than one quantum has returned
C19_Witness ==
    /\ Scenario4
    /\ pc = "done"
    /\ algorithm = "RR_OV"
    /\ jobs[1].arrivalTime > 0
    /\ jobs[1].burstTime > timeQuantum
    /\ Len(cpuTimeSlots) >= 2
    /\ 1 \in DOMAIN jobResults

\* a Calculate SRTN request made while the CPU count field holds 0
ZeroCpuRequest == calculateSRTNSchedule /\ cpuCount = 0

\* the request ends in the component without a call of calculateSRTN:
\* nothing is stored, and no time slot or snapshot exists
RejectedWithoutTrace ==
    /\ pc' = "page"
    /\ algorithm' = algorithm
    /\ page'.scheduleResult = page.scheduleResult
    /\ page'.activeAlgorithm = page.activeAlgorithm
    /\ cpuTimeSlots' = <<>>
    /\ queueSnapshots' = <<>>

ZeroCpuStep ==
    ZeroCpuRequest => page'.toast = "Invalid CPU count" /\ RejectedWithoutTrace

ZeroCpuStepAmended ==
    ZeroCpuRequest =>
        /\ page'.toast = IF Cardinality(JobIds) = 0 THEN "No jobs to schedule"
                         ELSE "Invalid CPU count"
        /\ RejectedWithoutTrace

RoundRobinInvoked ==
    /\ page.variant \in PageVariants
    /\ \/ algorithm \in {"RR", "RR_OV"} /\ pc \in {"loop", "process", "done"}
       \/ pc = "external" /\ page.activeAlgorithm = "RR"

\* C21: for every sequence of JobScheduler operations, a Round Robin request
\* with timeQuantum <= 0 (or an empty quantum field) is rejected before the
\* simulation starts: calculateRoundRobin is never invoked with a quantum
\* that is not > 0.
C21_QuantumPositiveAtCall == RoundRobinInvoked => quantum > 0

\* a click on Calculate SRTN or Calculate Round Robin, or the recalculation
\* by the effect
CalculateRequest == calculateSRTNSchedule \/ calculateRoundRobinSchedule

\* the job list is empty, or some job has burstTime <= 0 or arrivalTime < 0
InvalidJobList == Cardinality(JobIds) = 0 \/ SomeJobInvalid

InvalidJobsStep == (CalculateRequest /\ InvalidJobList) => RejectedWithoutTrace

\* C22: for every sequence of JobScheduler operations, a calculate request
\* made while the job list is empty or while some job has burstTime <= 0 or
\* arrivalTime < 0 is rejected without calling the engine and without any
\* partial trace: the stored scheduleResult and activeAlgorithm are left
\* exactly as they were before the request.
C22_InvalidJobsRejected == [][InvalidJobsStep]_vars

\* a schedule was calculated and stored, a job was then given an invalid
\* field, and the next request was rejected for it: the earlier result and
\* algorithm are still the stored ones
C22_Witness ==
    /\ pc = "page"
    /\ SomeJobInvalid
    /\ page.toast = "Invalid job parameters"
    /\ page.scheduleResult # NoResult
    /\ page.activeAlgorithm # ""

\* the segment recorded last before segment k for the CPU of segment k;
\* 0 if k is the first segment of its CPU
PreviousOnCpu(k) ==
    LET earlier == {j \in 1..(k - 1) : cpuTimeSlots[j].cpuId = cpuTimeSlots[k].cpuId}
    IN  IF earlier = {} THEN 0
        ELSE CHOOSE j \in earlier : \A other \in earlier : other <= j

\* C23: in the ScheduleResult of any engine function, for every CPU that ever
\* ran a job, the CPU's segments are contiguous (each starts exactly where
\* the previous one of that CPU ended) and cover the whole interval from
\* time 0 to the end of the CPU's last segment, with no uncovered gap.
C23_SegmentsCoverFromZero ==
    pc = "done" =>
        \A k \in 1..Len(cpuTimeSlots) :
            cpuTimeSlots[k].startTime =
                IF PreviousOnCpu(k) = 0 THEN 0
                ELSE cpuTimeSlots[PreviousOnCpu(k)].endTime

\* some job is still unarrived, waiting in the ready queue, or on a CPU
WorkRemains ==
    \/ Len(remainingJobs) > 0
    \/ Len(readyQueue) > 0
    \/ \E i \in Cpus : cpuJobs[i] # NoJob

\* C25: for every valid input, in all four engine loops the 'no next event'
\* exit (nextEventTime === Infinity, break) is never taken while work
\* remains.
C25_NoBreakWhileWorkRemains == exitedBy = "break" => ~WorkRemains

\* C26: for every valid input, in every loop iteration of every engine
\* function the computed nextEventTime is strictly greater than currentTime
\* (so currentTime strictly increases from one iteration to the next), and
\* every recorded segment, job or overhead, has endTime > startTime.
C26_TimeAdvances ==
    /\ pc = "process" => nextEventTime > currentTime
    /\ \A k \in 1..Len(cpuTimeSlots) :
          cpuTimeSlots[k].endTime > cpuTimeSlots[k].startTime

\* an iteration after time 0 has computed its next event, with a job segment
\* and an overhead segment already recorded
C26_Witness ==
    /\ pc = "process"
    /\ currentTime > 0
    /\ nextEventTime > currentTime
    /\ \E a, b \in 1..Len(cpuTimeSlots) :
          cpuTimeSlots[a].isOverhead /\ ~cpuTimeSlots[b].isOverhead

RoundRobinVariants == {"RR", "RR_OV"}

\* what is left of the quantum of CPU i, counted from the moment the CPU
\* accepted its job
RemainingQuantum(i) == timeQuantum - (currentTime - cpuAcceptTime[i])

\* (a) the arrival times of the jobs not yet arrived
PendingArrivals == {jobs[remainingJobs[k]].arrivalTime : k \in 1..Len(remainingJobs)}

\* (b) for each job on a CPU, the time at which it completes or, in Round
\* Robin, at which its quantum expires if that is earlier
PendingCompletions ==
    {currentTime + (IF algorithm \in RoundRobinVariants
                    THEN Min2(RemainingQuantum(i), remainingTime[cpuJobs[i]])
                    ELSE remainingTime[cpuJobs[i]]) :
        i \in {c \in Cpus : cpuJobs[c] # NoJob}}

\* (c) the overhead expiry times still in the future
PendingOverheadEnds ==
    {cpuOverheadEndTimes[i] : i \in {c \in Cpus : cpuOverheadEndTimes[c] > currentTime}}

EarliestPendingEvent ==
    MinOf({Infinity} \cup PendingArrivals \cup PendingCompletions \cup PendingOverheadEnds)

\* C27: in every loop iteration the next-event computation returns the
\* earliest pending event: nextEventTime is the minimum of (a) the earliest
\* arrivalTime among the jobs not yet arrived, (b) currentTime +
\* remainingTime of each job on a CPU (Round Robin: currentTime +
\* min(remaining quantum, remainingTime)) and (c) each overhead expiry time
\* still in the future; so no arrival, completion, quantum expiry or
\* overhead expiry is skipped over.
C27_EarliestEvent ==
    /\ pc = "process" => nextEventTime = EarliestPendingEvent
    /\ exitedBy = "break" => EarliestPendingEvent = Infinity

\* the next event is a quantum expiry that comes before the job's
\* completion, after an overhead period
C27_Witness ==
    /\ pc = "process"
    /\ algorithm = "RR_OV"
    /\ \E i \in Cpus :
          /\ cpuJobs[i] # NoJob
          /\ nextEventTime = currentTime + RemainingQuantum(i)
          /\ RemainingQuantum(i) < remainingTime[cpuJobs[i]]
    /\ \E k \in 1..Len(cpuTimeSlots) : cpuTimeSlots[k].isOverhead

\* C28: in every reachable state of every engine function on valid input,
\* each job's remainingTime satisfies 0 <= remainingTime <= burstTime; it
\* never becomes negative when time is advanced to the next event.
C28_RemainingWithinBurst ==
    \A id \in JobIds :
        /\ 0 <= remainingTime[id]
        /\ remainingTime[id] <= jobs[id].burstTime

\* time has advanced to an event at which one job is complete and another
\* has run for part of its burst time
C28_Witness ==
    /\ pc = "loop"
    /\ currentTime > 0
    /\ \E a, b \in JobIds :
          /\ remainingTime[a] = 0
          /\ 0 < remainingTime[b]
          /\ remainingTime[b] < jobs[b].burstTime

\* job a comes before job b in the order by remaining time, then arrival
\* time, then id
DispatchedBefore(a, b) ==
    \/ remainingTime[a] < remainingTime[b]
    \/ /\ remainingTime[a] = remainingTime[b]
       /\ jobs[a].arrivalTime < jobs[b].arrivalTime
    \/ /\ remainingTime[a] = remainingTime[b]
       /\ jobs[a].arrivalTime = jobs[b].arrivalTime
       /\ a < b

\* CPU i has taken its job from the ready queue at the current instant
JustDispatched(i) == cpuJobs[i] # NoJob /\ cpuAcceptTime[i] = currentTime

\* C29: whenever calculateSRTN (either variant) dispatches a job from the
\* ready queue, ties are broken by a total order: among waiting jobs with
\* equal remaining time the one with the earliest arrivalTime is dispatched
\* first, and among jobs with equal remaining time and equal arrivalTime the
\* one with the smaller id, whatever the order of insertion into the queue:
\* no job left waiting comes before a job just dispatched.
C29_DispatchTotalOrder ==
    (algorithm \in SRTNVariants /\ pc \in {"loop", "process"}) =>
        \A i \in Cpus : JustDispatched(i) =>
            \A k \in 1..Len(readyQueue) :
                remainingTime[readyQueue[k]] = remainingTime[cpuJobs[i]] =>
                    DispatchedBefore(cpuJobs[i], readyQueue[k])

\* the jobs that have arrived and are unfinished: on a CPU or in the queue
ArrivedUnfinished ==
    {cpuJobs[i] : i \in {c \in Cpus : Runs(c)}}
        \cup {readyQueue[k] : k \in 1..Len(readyQueue)}

\* job a is ranked strictly before job b by (remaining time, arrival time)
RankedBefore(a, b) ==
    \/ remainingTime[a] < remainingTime[b]
    \/ /\ remainingTime[a] = remainingTime[b]
       /\ jobs[a].arrivalTime < jobs[b].arrivalTime

\* the number of CPUs the smallest jobs are to occupy
PlacedCount == Min2(cpuCount, Cardinality(ArrivedUnfinished))

\* CPUs 0..k-1 run the k first-ranked jobs, CPU i the job ranked i-th
PlacedInCpuOrder ==
    /\ \A i \in Cpus : i < PlacedCount => Runs(i)
    /\ \A i \in Cpus : \A j \in Cpus :
           (i < j /\ j < PlacedCount) => ~RankedBefore(cpuJobs[j], cpuJobs[i])
    /\ \A i \in Cpus : \A k \in 1..Len(readyQueue) :
           i < PlacedCount => ~RankedBefore(readyQueue[k], cpuJobs[i])

\* C30: in calculateSRTN (either variant, no overhead), during the interval
\* that follows an event, the k = min(cpuCount, number of unfinished arrived
\* jobs) jobs with the smallest remaining time are on CPUs 0..k-1, CPU i
\* running the job ranked i-th by (remaining time, arrival time).
C30_SmallestOnCpusInOrder ==
    (algorithm \in SRTNVariants /\ switchingOverhead = 0 /\ pc = "process")
        => PlacedInCpuOrder

\* the step hands CPU i a job: another job than it had, or the same job anew
GivenNewJob(i) ==
    /\ cpuJobs'[i] # NoJob
    /\ cpuJobs'[i] # cpuJobs[i] \/ cpuAcceptTime'[i] # cpuAcceptTime[i]

\* the job on CPU i completes at nextEventTime, strictly inside a quantum
CompletesInsideQuantum(i) ==
    /\ pc = "process"
    /\ cpuJobs[i] # NoJob
    /\ remainingTime[cpuJobs[i]] <= nextEventTime - currentTime
    /\ nextEventTime % quantum # 0

\* CPU i is free at an instant that is not a quantum boundary
FreeInsideQuantum(i) ==
    pc = "loop" /\ cpuJobs[i] = NoJob /\ currentTime % quantum # 0

C24_Step ==
    algorithm = QuantumMode =>
        \A i \in Cpus :
            /\ GivenNewJob(i) => currentTime' % quantum = 0
            /\ CompletesInsideQuantum(i) => cpuJobs'[i] = NoJob
            /\ FreeInsideQuantum(i) => cpuJobs'[i] = NoJob

C31_NoJobDuringOverhead ==
    algorithm \in OverheadVariants =>
        \A i \in Cpus : InOverhead(i) => cpuJobs[i] = NoJob

\* a CPU is in overhead during an interval in which a job waits for a CPU
C31_Witness ==
    /\ algorithm \in OverheadVariants
    /\ pc = "process"
    /\ Len(readyQueue) > 0
    /\ \E i \in Cpus : InOverhead(i) /\ cpuJobs[i] = NoJob

\* the productive segments of job id recorded so far
ProductiveSlots(id) ==
    {k \in 1..Len(cpuTimeSlots) :
        cpuTimeSlots[k].jobId = id /\ ~cpuTimeSlots[k].isOverhead}

\* the start of the earliest productive segment of job id
FirstRunTime(id) == MinOf({cpuTimeSlots[k].startTime : k \in ProductiveSlots(id)})

\* C32: for every entry of jobResults produced by any engine function,
\* startTime is the first instant the job occupied a CPU: the startTime of
\* the job's earliest productive segment in cpuTimeSlots.
C32_StartTimeIsFirstSegment ==
    \A id \in DOMAIN jobResults :
        /\ ProductiveSlots(id) # {}
        /\ jobResults[id].startTime = FirstRunTime(id)

\* the snapshot appended last
LastSnapshot == queueSnapshots[Len(queueSnapshots)]

\* what a snapshot of the ready queue as it is now shows
QueueContent == takeQueueSnapshot(currentTime, readyQueue, remainingTime).readyQueue

\* C33: in the overhead variants a queue snapshot is taken whenever the
\* ready-queue composition changes (admission, dispatch, requeue), showing
\* the new queue content, before simulated time advances: during every
\* interval [currentTime, nextEventTime) the last snapshot shows the ready
\* queue as it is.
C33_SnapshotShowsQueue ==
    (algorithm \in OverheadVariants /\ pc = "process") =>
        /\ Len(queueSnapshots) > 0
        /\ LastSnapshot.readyQueue = QueueContent

\* the number of places job id is in: not yet arrived, in the ready queue,
\* on a CPU, completed
PlacesOf(id) ==
    Occurrences(remainingJobs, id) + Occurrences(readyQueue, id)
        + Cardinality({i \in Cpus : cpuJobs[i] = id})
        + (IF id \in DOMAIN jobResults THEN 1 ELSE 0)

\* C34: at every loop-iteration boundary of every engine function each
\* input job is in exactly one place: not yet arrived, in the ready queue
\* exactly once, on exactly one CPU, or completed (with a jobResults entry).
C34_EachJobInOnePlace ==
    pc = "loop" => \A id \in JobIds : PlacesOf(id) = 1

\* at an iteration boundary one job waits, one is on a CPU and one is
\* completed
C34_Witness ==
    /\ pc = "loop"
    /\ Len(readyQueue) > 0
    /\ \E i \in Cpus : cpuJobs[i] # NoJob
    /\ DOMAIN jobResults # {}

\* C35: at every loop-iteration boundary of every engine function, for each
\* job, remainingTime equals burstTime minus the total duration of the
\* productive segments recorded so far in cpuTimeSlots for that job.
C35_RemainingIsBurstMinusRun ==
    pc = "loop" =>
        \A id \in JobIds :
            remainingTime[id] = jobs[id].burstTime - ProductiveTime(id)

\* at an iteration boundary a job has run in two segments and is unfinished
\* and another job has not run yet
C35_Witness ==
    /\ pc = "loop"
    /\ \E id \in JobIds :
          /\ Cardinality(ProductiveSlots(id)) >= 2
          /\ remainingTime[id] > 0
    /\ \E id \in JobIds : ProductiveSlots(id) = {}

\* the jobs pushed to the ready queue by the step
PushedByStep == {enqLog'[k] : k \in (Len(enqLog) + 1)..Len(enqLog')}

\* the assignment phase of the step preempts the job on CPU i
PreemptedInStep(i) ==
    /\ algorithm = "SRTN_OV"
    /\ pc = "loop"
    /\ cpuJobs[i] # NoJob
    /\ cpuJobs[i] \in PushedByStep

\* after the step job id is behind every job that waited before the step
AtEndOfQueue(id) ==
    \A k \in 1..Len(readyQueue') : \A l \in 1..Len(readyQueue') :
        (readyQueue'[k] = id /\ k < l) =>
            \E c \in Cpus : cpuJobs[c] = readyQueue'[l]

C36_Step ==
    \A i \in Cpus :
        PreemptedInStep(i) =>
            /\ cpuJobs'[i] = NoJob
            /\ AtEndOfQueue(cpuJobs[i])

ExpiresUnfinished(i) ==
    /\ pc = "process"
    /\ cpuJobs[i] # NoJob
    /\ cpuOverheadEndTimes[i] <= currentTime
    /\ cpuTimeRemaining[i] <= nextEventTime - currentTime
    /\ remainingTime[cpuJobs[i]] > nextEventTime - currentTime

\* the jobs whose arrivalTime is nextEventTime
ArrivingAtNextEvent ==
    {remainingJobs[k] : k \in {l \in 1..Len(remainingJobs) :
                                  jobs[remainingJobs[l]].arrivalTime = nextEventTime}}

\* every job dispatched so far entered the queue before the jobs dispatched
\* after it
DispatchedInQueueOrder(enq, deq) ==
    /\ Len(deq) <= Len(enq)
    /\ \A k \in 1..Len(deq) : deq[k] = enq[k]

C37_Step ==
    algorithm \in RoundRobinVariants =>
        /\ DispatchedInQueueOrder(enqLog', deqLog')
        /\ \A i \in Cpus :
               (ExpiresUnfinished(i) /\ ArrivingAtNextEvent # {}) =>
                   /\ cpuJobs[i] \in PushedByStep
                   /\ PushedByStep \cap ArrivingAtNextEvent = {}
                   /\ \A a \in ArrivingAtNextEvent :
                          \E k \in 1..Len(remainingJobs') : remainingJobs'[k] = a

\* C37: in calculateRoundRobin (both variants), when a running job's quantum
\* expires at time t without completion and another job's arrivalTime is t,
\* the expired job enters the ready queue ahead of the arriving job (the
\* requeue ends the iteration that ends at t, the admission starts the next
\* one), and, the queue being first-in first-out, is dispatched again before
\* the job that arrived at t.
C37_ExpiredAheadOfArrival == [][C37_Step]_vars

\* a job was requeued at the end of its quantum at the instant another job
\* arrived, the arriving job entered the queue right behind it, and both
\* have been dispatched since
C37_Witness ==
    /\ algorithm \in RoundRobinVariants
    /\ \E p \in 1..Len(enqLog) :
          /\ p + 1 <= Len(deqLog)
          /\ \E k \in 1..(p - 1) : enqLog[k] = enqLog[p]
          /\ \A k \in 1..p : enqLog[k] # enqLog[p + 1]
          /\ \E k \in 1..Len(cpuTimeSlots) :
                /\ cpuTimeSlots[k].jobId = enqLog[p]
                /\ cpuTimeSlots[k].endTime = jobs[enqLog[p + 1]].arrivalTime

\* the slots the step appends to cpuTimeSlots
SlotsPushedByStep ==
    {cpuTimeSlots'[k] : k \in (Len(cpuTimeSlots) + 1)..Len(cpuTimeSlots')}

\* the step puts CPU i into overhead from nextEventTime for
\* switchingOverhead time units, with an overhead segment, and frees it
EntersOverhead(i) ==
    /\ cpuOverheadEndTimes'[i] = nextEventTime + switchingOverhead
    /\ OverheadSlot(i, nextEventTime, nextEventTime + switchingOverhead)
           \in SlotsPushedByStep
    /\ cpuJobs'[i] = NoJob

\* every quantum expiry of an unfinished job starts an overhead period
ExpiryStartsOverhead ==
    \A i \in Cpus : ExpiresUnfinished(i) => EntersOverhead(i)

\* the quantum of job id has just expired on CPU i while the ready queue was
\* empty: the job is alone in the queue and the CPU is in overhead
RequeuedAlone(i, id) ==
    /\ pc = "loop"
    /\ readyQueue = <<id>>
    /\ remainingTime[id] > 0
    /\ InOverhead(i)
    /\ \E k \in 1..Len(cpuTimeSlots) :
          cpuTimeSlots[k] = OverheadSlot(i, currentTime, currentTime + switchingOverhead)
    /\ \E k \in 1..Len(cpuTimeSlots) :
          /\ cpuTimeSlots[k].cpuId = i
          /\ cpuTimeSlots[k].jobId = id
          /\ cpuTimeSlots[k].endTime = currentTime

\* the CPUs that can take a job now
FreeCpus == {c \in Cpus : cpuJobs[c] = NoJob /\ ~InOverhead(c)}

C38_Step ==
    (algorithm = "RR_OV" /\ switchingOverhead > 0) =>
        /\ ExpiryStartsOverhead
        /\ \A i \in Cpus : \A id \in JobIds :
               RequeuedAlone(i, id) =>
                   \A c \in Cpus \ {i} : cpuJobs'[c] # id

\* C38: in the overhead variant of calculateRoundRobin with
\* switchingOverhead > 0, every quantum expiry of an unfinished job puts
\* that CPU into overhead for exactly switchingOverhead time units and
\* records an overhead segment, also when the ready queue is empty, so that
\* the same job resumes on the same CPU afterwards (no other CPU takes it).
C38_ExpiryOverheadSameCpu == [][C38_Step]_vars

C38_StepAmended ==
    (algorithm = "RR_OV" /\ switchingOverhead > 0) =>
        /\ ExpiryStartsOverhead
        /\ \A i \in Cpus : \A id \in JobIds :
               RequeuedAlone(i, id) =>
                   IF FreeCpus = {}
                   THEN \A c \in Cpus : cpuJobs'[c] # id
                   ELSE cpuJobs'[MinOf(FreeCpus)] = id

\* C38 (amended): every quantum expiry of an unfinished job puts that CPU
\* into overhead for exactly switchingOverhead time units and records an
\* overhead segment, also when the ready queue is empty; the requeued job is
\* then taken at once by the first CPU that is free and not in overhead, if
\* there is one, and waits otherwise.
C38_ExpiryOverheadAmended == [][C38_StepAmended]_vars

\* after a quantum expiry with an empty ready queue the CPU is in overhead
\* and the job runs on another CPU, which accepted it at that instant
C38_Witness ==
    /\ algorithm = "RR_OV"
    /\ switchingOverhead > 0
    /\ pc = "process"
    /\ Len(readyQueue) = 0
    /\ \E i \in Cpus : \E c \in Cpus \ {i} :
          /\ InOverhead(i)
          /\ cpuJobs[c] # NoJob
          /\ cpuAcceptTime[c] = currentTime
          /\ \E k \in 1..Len(cpuTimeSlots) :
                cpuTimeSlots[k] = OverheadSlot(i, currentTime, currentTime + switchingOverhead)
          /\ \E k \in 1..Len(cpuTimeSlots) :
                /\ cpuTimeSlots[k].cpuId = i
                /\ cpuTimeSlots[k].jobId = cpuJobs[c]
                /\ cpuTimeSlots[k].endTime = currentTime

====
